---- MODULE Spec2Model ----
(***************************************************************************)
(* Position lifecycle engines of the Futures-Day-Trader repository:        *)
(*   exec/live3.py  - staged maker engine (run)                            *)
(*   exec/live2.py  - single-shot long engine with daily-loss halt (run)   *)
(*   exec/paper.py  - paper engine (__main__ loop)                         *)
(* Python floats are modelled as exact rationals <<n, d>> (d > 0, lowest   *)
(* terms); the exchange is modelled by its open orders, its trade list     *)
(* and the net position it holds for the account.                          *)
(***************************************************************************)
EXTENDS Integers, Sequences, FiniteSets, TLC

VARIABLES
    engine,         \* which script is running: "live3", "live2" or "paper"
    USE_MAKER,      \* live2.py 26: the USE_MAKER setting of the environment
    pc,             \* position of the run loop inside the current poll cycle
    \* ---- live3.run locals (live3.py 119-125) ----
    equity, in_pos, pos_side, entry_px, tp_px, sl_px, amount,
    \* ---- per-cycle locals of live3.run ----
    bid, ask, trigger_long, trigger_short,
    filled, vwap, filled_add, vwap_add, stage, cur_notional, do_exit,
    \* ---- live2.py / paper.py module state (live2.py 137-139, 143, 148;
    \*      paper.py 20-31, 84) ----
    entry, sl, tp, qty, equity_at_entry, start_equity, last_day,
    start_equity_today, consec_losses,
    today,          \* datetime.now(timezone.utc).date(), as a day number
    \* ---- exchange (ccxt) ----
    exOpen,         \* resting limit orders
    exTrades,       \* the account's trades inside the fetch_my_trades window
    exPos,          \* net base position actually held at the exchange
    \* ---- history (ghost) variables ----
    sumQ,           \* sum of a over every fill folded into the current position
    sumPQ,          \* sum of p * a over every fill folded into the current position
    cyc,            \* record of the poll cycle in progress (at "sleep": the finished one)
    exitRec,        \* record of the position reset of the finished cycle
    exitQty,        \* quantity executed by exit orders since the exit started
    mkt,            \* market exit order of the exit in progress: none, sent, failed
    nExits,         \* exits that got as far as the re-read of the book / the sell
    haltDay,        \* the day of the last cycle the daily-loss halt stopped (0: none)
    baseDay,        \* the day on which the day-start equity was last set
    \* ---- functions and helpers called on their own ----
    call,           \* the call: the function and its arguments
    ret,            \* what the call returned
    probe           \* the placement loop of the maker probe scripts

l3vars == <<equity, in_pos, pos_side, entry_px, tp_px, sl_px, amount>>
cyvars == <<bid, ask, trigger_long, trigger_short, filled, vwap, filled_add,
            vwap_add, stage, cur_notional, do_exit>>
exvars == <<exOpen, exTrades, exPos>>
ghvars == <<sumQ, sumPQ, cyc, exitRec, exitQty, mkt, nExits>>
l2vars == <<entry, sl, tp, qty, equity_at_entry, start_equity, last_day>>
ppvars == <<start_equity_today, consec_losses>>
fnvars == <<call, ret, probe>>
vars   == <<engine, USE_MAKER, pc, l3vars, cyvars, exvars, ghvars, l2vars, ppvars, today, haltDay,
            baseDay, fnvars>>

\* what live3.py does not have: the script that runs, and the state of the others
l3fixed == <<engine, USE_MAKER, l2vars, ppvars, today, haltDay, baseDay, fnvars>>

---------------------------------------------------------------------------
(* Bounds of the model *)

\* orders resting at the exchange at one time
MaxOpen == 1
\* trades inside the 120 s window of fetch_my_trades at one time
MaxWindow == 2
\* base units the account's funds let it hold, long or short
MaxExposure == 8
\* realized-P&L settlements in one run
MaxExits == 1
\* simulated positions the paper trader closes in one run
MaxPaperExits == 4

---------------------------------------------------------------------------
(* Exact rational arithmetic standing for Python float arithmetic *)

None == "None"
\* None in a price field: a pair that is no rational number
NoPx == <<0, 0>>

RECURSIVE GCD(_, _)
GCD(a, b) == IF b = 0 THEN a ELSE GCD(b, a % b)

Abs(n) == IF n < 0 THEN -n ELSE n

\* n/d in lowest terms with a positive denominator
Rat(n, d) ==
    LET s == IF d < 0 THEN -1 ELSE 1
        g == GCD(Abs(n), Abs(d))
    IN  <<(s * n) \div g, (s * d) \div g>>

Zero == <<0, 1>>
One  == <<1, 1>>

RAdd(x, y) ==
    LET g == GCD(x[2], y[2])
    IN  Rat(x[1] * (y[2] \div g) + y[1] * (x[2] \div g), (x[2] \div g) * y[2])

RNeg(x) == <<-x[1], x[2]>>

RSub(x, y) == RAdd(x, RNeg(y))

\* cross-reduced so that only the result has to fit
RMul(x, y) ==
    LET g1 == GCD(Abs(x[1]), y[2])
        g2 == GCD(Abs(y[1]), x[2])
    IN  Rat((x[1] \div g1) * (y[1] \div g2), (x[2] \div g2) * (y[2] \div g1))

RDiv(x, y) == RMul(x, Rat(y[2], y[1]))

\* sign of a/b - c/d (b, d > 0) by comparing continued fractions
RECURSIVE Cmp(_, _, _, _)
Cmp(a, b, c, d) ==
    LET q1 == a \div b
        q2 == c \div d
        r1 == a % b
        r2 == c % d
    IN  IF q1 < q2 THEN -1
        ELSE IF q1 > q2 THEN 1
        ELSE IF r1 = 0 /\ r2 = 0 THEN 0
        ELSE IF r1 = 0 THEN -1
        ELSE IF r2 = 0 THEN 1
        ELSE Cmp(d, r2, b, r1)

RLt(x, y) == Cmp(x[1], x[2], y[1], y[2]) < 0
RLe(x, y) == Cmp(x[1], x[2], y[1], y[2]) <= 0
RGt(x, y) == RLt(y, x)
RGe(x, y) == RLe(y, x)
RMax(x, y) == IF RGe(x, y) THEN x ELSE y

\* math.floor
RFloor(x) == <<x[1] \div x[2], 1>>

RECURSIVE Pow10(_)
Pow10(k) == IF k = 0 THEN 1 ELSE 10 * Pow10(k - 1)

---------------------------------------------------------------------------
(* Configuration of live3.py (environment defaults) *)

START_EQUITY      == Rat(1000, 1)
MAKER_FEE_RATE    == Rat(25, 10000)
PRICE_IMPROVE_PCT == Rat(2, 10000)
POS_FRAC_MIN      == Rat(70, 100)
POS_FRAC_PREF     == Rat(75, 100)
POS_FRAC_MAX      == Rat(80, 100)
ALWAYS_STAGE      == TRUE
TP_PCT            == Rat(49, 10)
SL_PCT            == Rat(1344, 100)
TP_TOL_BPS        == Rat(5, 10000)
SL_TOL_BPS        == Rat(5, 10000)
Hundred           == Rat(100, 1)
\* the 1e-9 slack of the staging comparison
Eps               == Rat(1, 1000000000)
\* trades[-20:]
TradeTail == 20

\* market precision and limits loaded by ex.load_markets(): decimal places of
\* the amount and of the price (a negative number stands for None), minimum amount
prec_amt   == 0
prec_price == 0
amt_min    == Zero

\* step = 10 ** (-prec); math.floor(x * step) / step
FloorStep(x, prec) ==
    LET step == Rat(1, Pow10(prec))
    IN  RDiv(RFloor(RMul(x, step)), step)

round_amt(x) == IF prec_amt < 0 THEN x ELSE FloorStep(x, prec_amt)

round_price(p) == IF prec_price < 0 THEN p ELSE FloorStep(p, prec_price)

---------------------------------------------------------------------------
(* The exchange *)

\* best bid / best ask a ticker can return; <<0, 0>> is a ticker without quotes
Quotes == { <<Zero, Zero>>,
            <<Rat(101, 1), Rat(102, 1)>>,
            <<Rat(86, 1),  Rat(87, 1)>>,
            <<Rat(116, 1), Rat(117, 1)>> }

\* check_triggers(): <<long, short>>
Triggers == { <<FALSE, FALSE>>, <<TRUE, FALSE>>, <<FALSE, TRUE>>, <<TRUE, TRUE>> }

\* the predictor wired into check_triggers() is an input of the loop: it is taken
\* to signal at the quotes 101 / 102 only
EntryQuote == <<Rat(101, 1), Rat(102, 1)>>

Signals(q) == IF q = EntryQuote THEN Triggers ELSE { <<FALSE, FALSE>> }

\* errors an exchange call can raise, and the error of a failed file write
ExErr == {"RateLimitExceeded", "NetworkError", "ExchangeError"}
IOErr == "OSError"

\* the exchange takes another resting order
Accepts(open) == Cardinality(open) < MaxOpen

FreeId(open) == CHOOSE i \in 1..MaxOpen : \A o \in open : o.id # i

\* ex.create_order(SYMBOL, "limit", side, amount, price, {"postOnly": True, ...}):
\* the open orders once the order rests
Resting(open, side, amt, px, reduce) ==
    open \cup {[id |-> FreeId(open), side |-> side, qty |-> amt, px |-> px,
                reduce |-> reduce]}

Signed(side, q) == IF side = "buy" THEN q ELSE RNeg(q)

RAbs(x) == IF x[1] < 0 THEN RNeg(x) ELSE x

\* a trade enters the window of fetch_my_trades; n counts how often the engine has
\* folded it into the position it is building or holding
Traded(trs, side, q, px) ==
    LET tr == [side |-> side, a |-> q, p |-> px, n |-> 0]
    IN  IF Len(trs) < MaxWindow THEN Append(trs, tr) ELSE Append(Tail(trs), tr)

\* quantity of a resting order that can still execute: a reduce-only order
\* executes only against an open position of the opposite direction
Fillable(o) ==
    IF ~o.reduce THEN o.qty
    ELSE LET room == IF o.side = "sell" THEN exPos ELSE RNeg(exPos)
         IN  IF RLe(room, Zero) THEN Zero
             ELSE IF RLe(o.qty, room) THEN o.qty ELSE room

\* the exchange acts while the engine sleeps inside a wait or after its exit
\* order, and between the last poll of the entry wait and cancel_all()
ExSteps == {"entryWait", "entryCancel", "stageWait", "exitReread"}

\* a resting order executes at its limit price for all it can
ExFill(o, q) ==
    /\ pc \in ExSteps
    /\ o \in exOpen
    /\ RGt(q, Zero)
    /\ q = Fillable(o)
    /\ RLe(RAbs(RAdd(exPos, Signed(o.side, q))), Rat(MaxExposure, 1))
    /\ exTrades' = Traded(exTrades, o.side, q, o.px)
    /\ exPos' = RAdd(exPos, Signed(o.side, q))
    /\ exOpen' = IF q = o.qty THEN exOpen \ {o}
                 ELSE (exOpen \ {o}) \cup {[o EXCEPT !.qty = RSub(o.qty, q)]}
    /\ exitQty' = IF o.reduce /\ pc \in {"exitReread", "exitSettle"}
                  THEN RAdd(exitQty, q) ELSE exitQty
    /\ cyc' = IF ~o.reduce /\ pc \in {"entryWait", "entryCancel"}
              THEN [cyc EXCEPT !.got = RAdd(@, q)] ELSE cyc
    /\ UNCHANGED <<l3fixed, pc, l3vars, cyvars, sumQ, sumPQ, exitRec, mkt, nExits>>

\* the oldest trade leaves the 120 s window of fetch_my_trades while the loop sleeps
ExAge ==
    /\ pc = "start"
    /\ exTrades # <<>>
    /\ exTrades' = Tail(exTrades)
    /\ UNCHANGED <<l3fixed, pc, l3vars, cyvars, exOpen, exPos, ghvars>>

\* trades[-20:]: the indices of the window the loop looks at
LastFrom(trs) == IF Len(trs) <= TradeTail THEN 1 ELSE Len(trs) - TradeTail + 1
LastTrades(trs) == SubSeq(trs, LastFrom(trs), Len(trs))

---------------------------------------------------------------------------
(* Fill aggregation of the nested waits (live3.py 156-160, 196-200) *)

\* for tr in trades: if tr.side == side: vwap = ... ; filled += a
RECURSIVE FoldFills(_, _, _, _)
FoldFills(trs, side, f, v) ==
    IF trs = <<>> THEN <<f, v>>
    ELSE LET tr == Head(trs)
         IN  IF tr.side = side
             THEN FoldFills(Tail(trs), side, RAdd(f, tr.a),
                            IF RGt(f, Zero)
                            THEN RDiv(RAdd(RMul(v, f), RMul(tr.p, tr.a)), RAdd(f, tr.a))
                            ELSE tr.p)
             ELSE FoldFills(Tail(trs), side, f, v)

\* history: the trades of the window that the loop has just folded are marked
Marked(trs, side) ==
    [i \in 1..Len(trs) |->
        IF i >= LastFrom(trs) /\ trs[i].side = side
        THEN [trs[i] EXCEPT !.n = @ + 1] ELSE trs[i]]

Unmarked(trs) == [i \in 1..Len(trs) |-> [trs[i] EXCEPT !.n = 0]]

RECURSIVE SumA(_, _)
SumA(trs, side) ==
    IF trs = <<>> THEN Zero
    ELSE RAdd(IF Head(trs).side = side THEN Head(trs).a ELSE Zero, SumA(Tail(trs), side))

RECURSIVE SumPA(_, _)
SumPA(trs, side) ==
    IF trs = <<>> THEN Zero
    ELSE RAdd(IF Head(trs).side = side THEN RMul(Head(trs).p, Head(trs).a) ELSE Zero,
              SumPA(Tail(trs), side))

\* take-profit and stop-loss price from the entry price (live3.py 173-174, 209-210)
TpOf(side, px) ==
    IF side = "long" THEN RMul(px, RAdd(One, RDiv(TP_PCT, Hundred)))
    ELSE RMul(px, RSub(One, RDiv(TP_PCT, Hundred)))

SlOf(side, px) ==
    IF side = "long" THEN RMul(px, RSub(One, RDiv(SL_PCT, Hundred)))
    ELSE RMul(px, RAdd(One, RDiv(SL_PCT, Hundred)))

\* x >= a * b and x <= a * b for b > 0, evaluated as x / b against a (the same
\* comparison of exact values, without forming the product)
GeProd(x, a, b) == RGe(RDiv(x, b), a)
LeProd(x, a, b) == RLe(RDiv(x, b), a)

\* a take-profit test without the tolerance
hit_tp_exact(side, b, a, tpx) ==
    IF side = "long" THEN RGe(a, tpx) ELSE RLe(b, tpx)

\* line 219-220
hit_tp(side, b, a, tpx) ==
    IF side = "long" THEN GeProd(a, tpx, RSub(One, TP_TOL_BPS))
    ELSE LeProd(b, tpx, RAdd(One, TP_TOL_BPS))

hit_sl(side, b, a, slx) ==
    IF side = "long" THEN LeProd(b, slx, RAdd(One, SL_TOL_BPS))
    ELSE GeProd(a, slx, RSub(One, SL_TOL_BPS))

\* an evaluation in which the take-profit is looked at last
ExitReasonTpLast(side, b, a, tpx, slx) ==
    IF hit_tp(side, b, a, tpx) THEN "TP"
    ELSE IF hit_sl(side, b, a, slx) THEN "SL"
    ELSE None

\* line 222-224
ExitReason(side, b, a, tpx, slx) ==
    LET r1 == IF hit_tp(side, b, a, tpx) THEN "TP" ELSE None
    IN  IF hit_sl(side, b, a, slx) THEN "SL" ELSE r1

\* line 241-242
beyond_tp(side, bb, aa, tpx) ==
    IF side = "long" THEN GeProd(aa, tpx, RAdd(One, TP_TOL_BPS))
    ELSE LeProd(bb, tpx, RSub(One, TP_TOL_BPS))

beyond_sl(side, bb, aa, slx) ==
    IF side = "long" THEN LeProd(bb, slx, RSub(One, SL_TOL_BPS))
    ELSE GeProd(aa, slx, RAdd(One, SL_TOL_BPS))

---------------------------------------------------------------------------
(* live3.py run(): the poll cycle.  A step of the model runs the loop body   *)
(* from one exchange call that can wait or interleave (a nested fill wait,   *)
(* a cancel, a re-read of the book) to the next one.                         *)

\* history of a position reset: the exit reason, the market order of the exit, whether
\* exit orders executed for the position's amount, whether the exchange still holds
\* the position, whether the row of the trade was written to the CSV file
NoExit == [reason |-> None, mkt |-> "none", filled |-> FALSE, open |-> FALSE,
           row |-> FALSE]

\* the call and the probe of a run that makes none
NoCall == [fn |-> "none"]
NoProbe == [ver |-> "none", out |-> "none"]

\* history of a poll cycle: it began with a position open (pos), and with market
\* data that passes the checks of the top of the loop too (due); the daily-loss
\* halt stopped it; it placed an entry order; the exit conditions were evaluated;
\* an except clause of the loop ended it; sig: a signal was true in the cycle;
\* edge and rej: the fee-edge comparison ran and passed, or ran and rejected;
\* staged: it placed a staging order; sent: the orders live2 handed to
\* create_order in the cycle, in their order, each with what became of it;
\* ledger: the append of the trade row to the CSV file raised ("failed"); got:
\* the quantity of the entry order of the cycle that executed at the exchange
IdleCyc == [pos |-> FALSE, due |-> FALSE, halt |-> FALSE, entry |-> FALSE,
            sig |-> FALSE, edge |-> FALSE, rej |-> FALSE, staged |-> FALSE,
            exitEval |-> FALSE, failed |-> FALSE, sent |-> <<>>, ledger |-> "none",
            got |-> Zero]

\* the position fields of run() (line 119-125)
CurPos == [in |-> in_pos, side |-> pos_side, px |-> entry_px, tp |-> tp_px,
           sl |-> sl_px, amt |-> amount]

\* a reset that forgets the side
FlatKeepsSide == [in |-> FALSE, side |-> "long", px |-> NoPx, tp |-> NoPx, sl |-> NoPx,
                  amt |-> Zero]

FlatPos == [in |-> FALSE, side |-> None, px |-> NoPx, tp |-> NoPx, sl |-> NoPx,
            amt |-> Zero]

SetPos(P) ==
    /\ in_pos' = P.in /\ pos_side' = P.side /\ entry_px' = P.px
    /\ tp_px' = P.tp /\ sl_px' = P.sl /\ amount' = P.amt

\* the quotes and triggers read at the top of the cycle (line 131-138)
CurCtx == [bid |-> bid, ask |-> ask, tl |-> trigger_long, ts |-> trigger_short]

NoCtx == [bid |-> Zero, ask |-> Zero, tl |-> FALSE, ts |-> FALSE]

\* the quotes alone: past line 179 the cycle does not read the triggers again
QuotesOf(C) == [C EXCEPT !.tl = FALSE, !.ts = FALSE]

SetCtx(C) ==
    /\ bid' = C.bid /\ ask' = C.ask
    /\ trigger_long' = C.tl /\ trigger_short' = C.ts

SetLocals(f, v, fa, va, st, cn, de) ==
    /\ filled' = f /\ vwap' = v /\ filled_add' = fa /\ vwap_add' = va
    /\ stage' = st /\ cur_notional' = cn
    /\ do_exit' = de

\* the cycle ends: time.sleep(POLL_SEC) (line 272) or the sleep of a handler
EndCycle(P, open, c) ==
    /\ pc' = "sleep"
    /\ SetPos(P) /\ SetCtx(NoCtx)
    /\ SetLocals(Zero, Zero, Zero, Zero, 0, Zero, None)
    /\ exOpen' = open
    /\ cyc' = c
    /\ exitQty' = Zero /\ mkt' = "none"

\* handlers that take the two network errors only
CaughtNetOnly(e) ==
    IF e = "RateLimitExceeded" THEN "rate limit"
    ELSE IF e = "NetworkError" THEN "network"
    ELSE None

\* line 274-279: the except clauses in their order
Caught(e) ==
    IF e = "RateLimitExceeded" THEN "rate limit"
    ELSE IF e = "NetworkError" THEN "network"
    ELSE "error"

\* an exception leaves the try block of the cycle: the clause that catches it
\* prints and sleeps (line 274-279), and an exception no clause catches ends run()
Raise(P, open, c, k) ==
    IF Caught(k) = None
    THEN /\ pc' = "dead"
         /\ SetPos(P) /\ SetCtx(NoCtx)
         /\ SetLocals(Zero, Zero, Zero, Zero, 0, Zero, None)
         /\ exOpen' = open
         /\ cyc' = c
         /\ exitQty' = Zero /\ mkt' = "none"
    ELSE EndCycle(P, open, [c EXCEPT !.failed = TRUE])

\* line 227-229
ExitSide(P) == IF P.side = "long" THEN "sell" ELSE "buy"

ExitPxTry(P, C) ==
    LET ref == IF P.side = "long" THEN C.ask ELSE C.bid
    IN  round_price(RMul(ref, IF ExitSide(P) = "sell"
                              THEN RAdd(One, PRICE_IMPROVE_PCT)
                              ELSE RSub(One, PRICE_IMPROVE_PCT)))

\* line 215-236: the exit section.  Without a position or a trigger the cycle
\* ends; otherwise the reduce-only maker order is tried (an exception of
\* maker_limit is dropped) and the book is about to be read again
ExitSection(P, C, open, c) ==
    LET r == IF P.in THEN ExitReason(P.side, C.bid, C.ask, P.tp, P.sl) ELSE None
    IN  IF r = None
        THEN EndCycle(P, open, [c EXCEPT !.exitEval = P.in])
        ELSE /\ pc' = "exitReread"
             /\ SetPos(P) /\ SetCtx(QuotesOf(C))
             /\ SetLocals(Zero, Zero, Zero, Zero, 0, Zero, r)
             /\ cyc' = [c EXCEPT !.exitEval = TRUE]
             /\ exitQty' = Zero /\ mkt' = "none"
             /\ \/ /\ Accepts(open)
                   /\ exOpen' = Resting(open, ExitSide(P), P.amt, ExitPxTry(P, C), TRUE)
                \/ exOpen' = open

\* line 181: for frac in [POS_FRAC_PREF, POS_FRAC_MAX]
StageFracs == <<POS_FRAC_PREF, POS_FRAC_MAX>>

\* a ladder whose every step is the whole equity
StageTargetFull(i) == equity

\* line 182
StageTarget(i) == RMul(equity, StageFracs[i])

\* line 180, 185: bid if pos_side == "long" else ask
RefPx(P, C) == IF P.side = "long" THEN C.bid ELSE C.ask

\* line 146 / 186: round_amt(max(amt_min, quote / ref))
SizedAmt(quote, ref, min_amount) == round_amt(RMax(min_amount, RDiv(quote, ref)))

\* line 184-186
StageAmt(P, C, i, cn) ==
    LET add_quote == RSub(StageTarget(i), cn)
    IN  SizedAmt(add_quote, RefPx(P, C), amt_min)

\* line 183 and 187: cur_notional + 1e-9 < target (evaluated as
\* 1e-9 < target - cur_notional) and add_amt > 0
StageDue(P, C, i, cn) ==
    /\ RLt(Eps, RSub(StageTarget(i), cn))
    /\ RGt(StageAmt(P, C, i, cn), Zero)

\* line 148 / 188: improved maker price of an entry or staging order
ImprovedPx(long, C) ==
    round_price(IF long THEN RMul(C.bid, RSub(One, PRICE_IMPROVE_PCT))
                ELSE RMul(C.ask, RAdd(One, PRICE_IMPROVE_PCT)))

\* line 188-193: the staging order of ladder step i is placed, or maker_limit raises
StagePlace(P, C, open, c, i, cn) ==
    \/ /\ Accepts(open)
       /\ pc' = "stageWait"
       /\ SetPos(P) /\ SetCtx(QuotesOf(C))
       /\ SetLocals(Zero, Zero, Zero, Zero, i, cn, None)
       /\ exOpen' = Resting(open, IF P.side = "long" THEN "buy" ELSE "sell",
                            StageAmt(P, C, i, cn), ImprovedPx(P.side = "long", C), FALSE)
       /\ cyc' = [c EXCEPT !.staged = TRUE]
       /\ exitQty' = Zero /\ mkt' = "none"
    \/ \E k \in ExErr : Raise(P, open, c, k)

\* line 181-212: the ladder from its second and from its first step
Stage2(P, C, open, c, cn) ==
    IF StageDue(P, C, 2, cn) THEN StagePlace(P, C, open, c, 2, cn)
    ELSE ExitSection(P, C, open, c)

Stage1(P, C, open, c, cn) ==
    IF StageDue(P, C, 1, cn) THEN StagePlace(P, C, open, c, 1, cn)
    ELSE Stage2(P, C, open, c, cn)

\* line 179-180
StagingSection(P, C, open, c) ==
    IF P.in /\ (ALWAYS_STAGE \/ C.tl \/ C.ts)
    THEN Stage1(P, C, open, c, RMul(P.amt, RefPx(P, C)))
    ELSE ExitSection(P, C, open, c)

\* an entry test that does not look at in_pos
WantsEntryAnyTime(C) == C.tl \/ C.ts

\* line 140: if not in_pos and (trigger_long or trigger_short)
WantsEntry(C) == ~in_pos /\ (C.tl \/ C.ts)

\* line 142-146: first-stage amount
EntryAmt(C) ==
    LET stage_fracs  == <<POS_FRAC_MIN, POS_FRAC_PREF, POS_FRAC_MAX>>
        target_quote == RMul(equity, stage_fracs[1])
        ref          == IF C.tl THEN C.bid ELSE C.ask
    IN  SizedAmt(target_quote, ref, amt_min)

EntryDue(C) == WantsEntry(C) /\ RGt(EntryAmt(C), Zero)

EntrySide(C) == IF C.tl THEN "buy" ELSE "sell"

Ctx(q, t) == [bid |-> q[1], ask |-> q[2], tl |-> t[1], ts |-> t[2]]

Valid(q) == q[1] # Zero /\ q[2] # Zero

StartCyc(valid) == [IdleCyc EXCEPT !.pos = in_pos, !.due = in_pos /\ valid]

L3Same == UNCHANGED <<l3fixed, equity, exTrades, exPos, sumQ, sumPQ, exitRec, nExits>>

\* line 131-147, 179-236: a cycle that places no entry order: zero quotes end it,
\* otherwise the staging and exit sections run
L3Start(q, t) ==
    /\ engine = "live3" /\ pc = "start"
    /\ IF ~Valid(q)
       THEN EndCycle(CurPos, exOpen, StartCyc(FALSE))
       ELSE /\ ~EntryDue(Ctx(q, t))
            /\ StagingSection(CurPos, Ctx(q, t), exOpen,
                              [StartCyc(TRUE) EXCEPT !.sig = t[1] \/ t[2]])
    /\ L3Same

\* line 131: best_bid_ask() raises
L3StartFail(k) ==
    /\ engine = "live3" /\ pc = "start"
    /\ Raise(CurPos, exOpen, StartCyc(FALSE), k)
    /\ L3Same

\* line 140-153: the first-stage maker order is accepted
L3EntryPlace(q, t) ==
    /\ engine = "live3" /\ pc = "start"
    /\ Valid(q) /\ EntryDue(Ctx(q, t))
    /\ Accepts(exOpen)
    /\ pc' = "entryWait"
    /\ SetPos(CurPos) /\ SetCtx(Ctx(q, t))
    /\ SetLocals(Zero, Zero, Zero, Zero, 0, Zero, None)
    /\ exOpen' = Resting(exOpen, EntrySide(Ctx(q, t)), EntryAmt(Ctx(q, t)),
                         ImprovedPx(t[1], Ctx(q, t)), FALSE)
    /\ cyc' = [StartCyc(TRUE) EXCEPT !.entry = TRUE, !.sig = t[1] \/ t[2]]
    /\ UNCHANGED <<exitQty, mkt>>
    /\ L3Same

\* line 149: maker_limit raises
L3EntryPlaceFail(q, t, k) ==
    /\ engine = "live3" /\ pc = "start"
    /\ Valid(q) /\ EntryDue(Ctx(q, t))
    /\ Raise(CurPos, exOpen, StartCyc(TRUE), k)
    /\ L3Same

\* one poll of a nested wait (line 154-162, 194-202): the trades of the window are
\* folded into (f, v); the wait ends on a fill, and without one it goes on or its
\* 25 s / 20 s are over
WaitPoll(side, f, v, done) ==
    LET trades == LastTrades(exTrades)
        r      == FoldFills(trades, side, f, v)
    IN  /\ exTrades' = Marked(exTrades, side)
        /\ sumQ' = RAdd(sumQ, SumA(trades, side))
        /\ sumPQ' = RAdd(sumPQ, SumPA(trades, side))
        /\ IF RGt(r[1], Zero) THEN pc' = done ELSE pc' \in {pc, done}

\* line 154-162: one poll of the entry wait
L3EntryPoll ==
    /\ engine = "live3" /\ pc = "entryWait"
    /\ WaitPoll(EntrySide(CurCtx), filled, vwap, "entryCancel")
    /\ filled' = FoldFills(LastTrades(exTrades), EntrySide(CurCtx), filled, vwap)[1]
    /\ vwap' = FoldFills(LastTrades(exTrades), EntrySide(CurCtx), filled, vwap)[2]
    /\ UNCHANGED <<bid, ask, trigger_long, trigger_short, filled_add, vwap_add, stage,
                   cur_notional, do_exit>>
    /\ UNCHANGED <<l3fixed, l3vars, exOpen, exPos, cyc, exitRec, exitQty, mkt, nExits>>

\* line 155: fetch_my_trades raises; the entry order stays where it is
L3EntryPollFail(k) ==
    /\ engine = "live3" /\ pc = "entryWait"
    /\ Raise(CurPos, exOpen, cyc, k)
    /\ L3Same

\* line 166-174: the position the entry fills open
Opened(C, f, v) ==
    LET side == IF C.tl THEN "long" ELSE "short"
    IN  [in |-> TRUE, side |-> side, px |-> v, tp |-> TpOf(side, v),
         sl |-> SlOf(side, v), amt |-> f]

\* line 164-176, 179-236: cancel_all() (every failure is swallowed, so any of the
\* open orders may stay), the position is opened if anything filled, and the
\* staging and exit sections run
L3EntryCancel(keep) ==
    /\ engine = "live3" /\ pc = "entryCancel"
    /\ keep \in SUBSET exOpen
    /\ StagingSection(IF RGt(filled, Zero) THEN Opened(CurCtx, filled, vwap) ELSE CurPos,
                      CurCtx, keep, cyc)
    /\ L3Same

StageSide == IF pos_side = "long" THEN "buy" ELSE "sell"

\* line 194-202: one poll of the staging wait
L3StagePoll ==
    /\ engine = "live3" /\ pc = "stageWait"
    /\ WaitPoll(StageSide, filled_add, vwap_add, "stageCancel")
    /\ filled_add' = FoldFills(LastTrades(exTrades), StageSide, filled_add, vwap_add)[1]
    /\ vwap_add' = FoldFills(LastTrades(exTrades), StageSide, filled_add, vwap_add)[2]
    /\ UNCHANGED <<bid, ask, trigger_long, trigger_short, filled, vwap, stage,
                   cur_notional, do_exit>>
    /\ UNCHANGED <<l3fixed, l3vars, exOpen, exPos, cyc, exitRec, exitQty, mkt, nExits>>

\* line 195: fetch_my_trades raises
L3StagePollFail(k) ==
    /\ engine = "live3" /\ pc = "stageWait"
    /\ Raise(CurPos, exOpen, cyc, k)
    /\ L3Same

\* a merge that averages the two prices without their weights
MergedPxUnweighted(px, amt, va, fa) == RDiv(RAdd(px, va), Rat(2, 1))

\* line 207: the staging batch is merged into the entry price
MergedPx(px, amt, va, fa) ==
    RDiv(RAdd(RMul(px, amt), RMul(va, fa)), RAdd(amt, fa))

\* a staging merge that keeps the targets of the first fill
StagedKeepsTargets(P, va, fa) ==
    [P EXCEPT !.px = MergedPx(P.px, P.amt, va, fa), !.amt = RAdd(P.amt, fa)]

\* line 206-210: the position after a staging batch
Staged(P, va, fa) ==
    LET px == MergedPx(P.px, P.amt, va, fa)
    IN  [P EXCEPT !.px = px, !.amt = RAdd(P.amt, fa),
                  !.tp = TpOf(P.side, px), !.sl = SlOf(P.side, px)]

\* line 204-212, then the next ladder step or the exit section
L3StageCancel(keep) ==
    /\ engine = "live3" /\ pc = "stageCancel"
    /\ keep \in SUBSET exOpen
    /\ LET P  == IF RGt(filled_add, Zero) THEN Staged(CurPos, vwap_add, filled_add)
                 ELSE CurPos
           cn == IF RGt(filled_add, Zero) THEN RMul(P.amt, RefPx(P, CurCtx))
                 ELSE cur_notional
       IN  IF stage < Len(StageFracs)
           THEN Stage2(P, CurCtx, keep, cyc, cn)
           ELSE ExitSection(P, CurCtx, keep, cyc)
    /\ L3Same

\* line 241-243
Beyond(q) ==
    \/ beyond_tp(pos_side, q[1], q[2], tp_px)
    \/ beyond_sl(pos_side, q[1], q[2], sl_px)

ExitKeep == <<l3fixed, l3vars, bid, ask, trigger_long, trigger_short, filled, vwap,
              filled_add, vwap_add, stage, cur_notional, do_exit,
              exOpen, sumQ, sumPQ, cyc, exitRec>>

\* line 240-243: the re-read quotes are not beyond the tolerance: no market order
L3ExitRereadWithin(q) ==
    /\ engine = "live3" /\ pc = "exitReread"
    /\ ~Beyond(q)
    /\ pc' = "exitSettle"
    /\ nExits' = nExits + 1
    /\ UNCHANGED <<exTrades, exPos, exitQty, mkt>>
    /\ UNCHANGED ExitKeep

\* line 243-245: beyond the tolerance, and the market order for `amount` executes
L3ExitMarket(q) ==
    /\ engine = "live3" /\ pc = "exitReread"
    /\ Beyond(q)
    /\ RLe(RAbs(RAdd(exPos, Signed(ExitSide(CurPos), amount))), Rat(MaxExposure, 1))
    /\ pc' = "exitSettle"
    /\ nExits' = nExits + 1
    /\ mkt' = "sent"
    /\ exTrades' = Traded(exTrades, ExitSide(CurPos), amount,
                          IF pos_side = "long" THEN q[1] ELSE q[2])
    /\ exPos' = RAdd(exPos, Signed(ExitSide(CurPos), amount))
    /\ exitQty' = RAdd(exitQty, amount)
    /\ UNCHANGED ExitKeep

\* line 244-248: beyond the tolerance, create_order raises and the error is dropped
L3ExitMarketFail(q) ==
    /\ engine = "live3" /\ pc = "exitReread"
    /\ Beyond(q)
    /\ pc' = "exitSettle"
    /\ nExits' = nExits + 1
    /\ mkt' = "failed"
    /\ UNCHANGED <<exTrades, exPos, exitQty>>
    /\ UNCHANGED ExitKeep

\* line 240: best_bid_ask() raises
L3ExitRereadFail(k) ==
    /\ engine = "live3" /\ pc = "exitReread"
    /\ Raise(CurPos, exOpen, cyc, k)
    /\ nExits' = nExits + 1
    /\ UNCHANGED <<l3fixed, equity, exTrades, exPos, sumQ, sumPQ, exitRec>>

\* line 252-258
Equity(q) ==
    LET exit_px        == IF pos_side = "long" THEN q[2] ELSE q[1]
        notional_entry == RMul(entry_px, amount)
        notional_exit  == RMul(exit_px, amount)
        gross_pnl      == IF pos_side = "long" THEN RSub(notional_exit, notional_entry)
                          ELSE RSub(notional_entry, notional_exit)
        fees           == RMul(MAKER_FEE_RATE, RAdd(notional_entry, notional_exit))
    IN  RAdd(equity, RSub(gross_pnl, fees))

\* history: what the exit that is being settled has done
ExitRecord ==
    [reason |-> do_exit, mkt |-> mkt, filled |-> RGe(exitQty, amount),
     open |-> IF pos_side = "long" THEN RGt(exPos, Zero) ELSE RLt(exPos, Zero),
     row |-> TRUE]

\* line 251-272: PnL, the CSV row, and the reset to flat
L3ExitSettle(q) ==
    /\ engine = "live3" /\ pc = "exitSettle"
    /\ equity' = Equity(q)
    /\ exitRec' = ExitRecord
    /\ EndCycle(FlatPos, exOpen, cyc)
    /\ exTrades' = Unmarked(exTrades)
    /\ sumQ' = Zero /\ sumPQ' = Zero
    /\ UNCHANGED <<l3fixed, exPos, nExits>>

\* line 251-260: equity is updated, then the CSV write raises before the reset
L3ExitWriteFail(q) ==
    /\ engine = "live3" /\ pc = "exitSettle"
    /\ equity' = Equity(q)
    /\ Raise(CurPos, exOpen, [cyc EXCEPT !.ledger = "failed"], IOErr)
    /\ UNCHANGED <<l3fixed, exTrades, exPos, sumQ, sumPQ, exitRec, nExits>>

\* line 251: best_bid_ask() raises
L3ExitSettleFail(k) ==
    /\ engine = "live3" /\ pc = "exitSettle"
    /\ Raise(CurPos, exOpen, cyc, k)
    /\ L3Same

\* line 129, 272: the sleep is over and the next cycle begins
L3Sleep ==
    /\ engine = "live3" /\ pc = "sleep"
    /\ nExits < MaxExits
    /\ pc' = "start"
    /\ cyc' = IdleCyc
    /\ exitRec' = NoExit
    /\ UNCHANGED <<l3fixed, l3vars, cyvars, exvars, sumQ, sumPQ, exitQty, mkt, nExits>>

\* line 119-125: the state of run() before the first cycle
InitLive3 ==
    /\ engine = "live3" /\ pc = "start" /\ USE_MAKER = FALSE
    /\ equity = START_EQUITY
    /\ in_pos = FALSE /\ pos_side = None /\ entry_px = NoPx
    /\ tp_px = NoPx /\ sl_px = NoPx /\ amount = Zero
    /\ bid = Zero /\ ask = Zero /\ trigger_long = FALSE /\ trigger_short = FALSE
    /\ filled = Zero /\ vwap = Zero /\ filled_add = Zero /\ vwap_add = Zero
    /\ stage = 0 /\ cur_notional = Zero /\ do_exit = None
    /\ exOpen = {} /\ exTrades = <<>> /\ exPos = Zero
    /\ sumQ = Zero /\ sumPQ = Zero /\ cyc = IdleCyc /\ exitRec = NoExit
    /\ exitQty = Zero /\ mkt = "none" /\ nExits = 0
    /\ entry = Zero /\ sl = Zero /\ tp = Zero /\ qty = Zero
    /\ equity_at_entry = NoPx /\ start_equity = Zero /\ last_day = 1
    /\ start_equity_today = Zero /\ consec_losses = 0
    /\ today = 1 /\ haltDay = 0 /\ baseDay = 1
    /\ call = NoCall /\ ret = None /\ probe = NoProbe

NextLive3 ==
    \/ \E q \in Quotes : \E t \in Signals(q) : L3Start(q, t)
    \/ \E k \in ExErr : L3StartFail(k)
    \/ \E q \in Quotes : \E t \in Signals(q) : L3EntryPlace(q, t)
    \/ \E q \in Quotes : \E t \in Signals(q), k \in ExErr : L3EntryPlaceFail(q, t, k)
    \/ L3EntryPoll
    \/ \E k \in ExErr : L3EntryPollFail(k)
    \/ \E keep \in SUBSET exOpen : L3EntryCancel(keep)
    \/ L3StagePoll
    \/ \E k \in ExErr : L3StagePollFail(k)
    \/ \E keep \in SUBSET exOpen : L3StageCancel(keep)
    \/ \E q \in Quotes : L3ExitRereadWithin(q)
    \/ \E q \in Quotes : L3ExitMarket(q)
    \/ \E q \in Quotes : L3ExitMarketFail(q)
    \/ \E k \in ExErr : L3ExitRereadFail(k)
    \/ \E q \in Quotes : L3ExitSettle(q)
    \/ \E q \in Quotes : L3ExitWriteFail(q)
    \/ \E k \in ExErr : L3ExitSettleFail(k)
    \/ L3Sleep
    \/ \E o \in exOpen : ExFill(o, Fillable(o))
    \/ ExAge

SpecLive3 == InitLive3 /\ [][NextLive3]_vars

---------------------------------------------------------------------------
(* live2.py run(): a poll cycle is one step (with USE_MAKER on, the cycle    *)
(* holds the whole of wait_fill_or_cancel, whose result is drawn here; the   *)
(* fetch_order of line 237 after a maker fill is taken to succeed).          *)

\* live2.py 19-34
FIXED_SPEND_QUOTE  == Rat(8, 1)
MIN_NOTIONAL_QUOTE == Rat(5, 1)
DAILY_LOSS_LIMIT   == Rat(6, 100)
FEE_SLIP_BUFFER    == Rat(1, 100)
MAKER_TP_POST      == TRUE
TAKER_FEE_RATE     == Rat(4, 1000)
L2_MAKER_FEE_RATE  == Rat(16, 10000)
FEE_EDGE_BUFFER    == Rat(12, 10)

\* live2.py 46-47: market metadata: decimal places of the amount, minimum amount
L2_prec_amt == 2
L2_amt_min  == Zero

\* what fetch_total_equity_quote() can return
Equities == { Rat(1000, 1), Rat(930, 1) }
\* last close and ATR of latest_candles()
Closes == { Rat(100, 1), Rat(95, 1), Rat(106, 1) }
Atrs == { Zero, Rat(1, 2), Rat(4, 1) }
\* what fetch_free_quote() can return
Frees == { Rat(3, 1), Rat(500, 1) }
\* the order book seen by spread_ok(): a side missing, a wide spread, a tight one
Books == { "none", "wide", "tight" }
\* days the clock runs through
MaxDays == 2

\* live2.py 95-100: int(q / step) * step with step = 10 ** (-prec_amt)
floor_qty_to_precision(q) ==
    LET step == Rat(1, Pow10(L2_prec_amt))
    IN  RMul(RFloor(RDiv(q, step)), step)

\* live2.py 85-93
spread_ok(book) == book = "tight"

\* live2.py 154-157: the baseline after the day check, given what the fetch returns
Baseline(r) == IF today # last_day THEN r ELSE start_equity

\* a halt test that lets a drop equal to the limit pass
HaltCondStrict(base, cur) ==
    /\ RGt(base, Zero)
    /\ RLt(RDiv(RSub(cur, base), base), RNeg(DAILY_LOSS_LIMIT))

\* live2.py 161
HaltCond(base, cur) ==
    /\ RGt(base, Zero)
    /\ RLe(RDiv(RSub(cur, base), base), RNeg(DAILY_LOSS_LIMIT))

\* live2.py 307-312: the except clauses in their order
L2Caught(e) ==
    IF e = "RateLimitExceeded" THEN "sleeping"
    ELSE IF e = "NetworkError" THEN "network issue"
    ELSE "loop"

\* an exception leaves the try block of the cycle
L2Raise(c, k) ==
    IF L2Caught(k) = None
    THEN pc' = "dead" /\ cyc' = c
    ELSE pc' = "sleep" /\ cyc' = [c EXCEPT !.failed = TRUE]

\* line 154-157: the day-start equity is read only when the day has changed
DayStart == IF today # last_day THEN Equities ELSE {start_equity}

\* what live2.py does not have
l2fixed == <<engine, USE_MAKER, equity, pos_side, entry_px, tp_px, sl_px, amount, cyvars,
             exOpen, exTrades, sumQ, sumPQ, exitQty, mkt, ppvars, fnvars>>

L2Cyc == [IdleCyc EXCEPT !.pos = in_pos]

\* line 154-157: the day check and the baseline
L2Roll(r) ==
    /\ last_day' = today /\ start_equity' = Baseline(r)
    /\ baseDay' = IF today # last_day THEN today ELSE baseDay

\* line 154-164: the daily loss cap is reached: sleep and continue
L2Halt ==
    /\ engine = "live2" /\ pc = "start"
    /\ \E r \in DayStart, cur \in Equities :
           /\ L2Roll(r)
           /\ HaltCond(Baseline(r), cur)
           /\ haltDay' = today
           /\ pc' = "sleep" /\ cyc' = [L2Cyc EXCEPT !.halt = TRUE]
           /\ UNCHANGED <<in_pos, entry, sl, tp, qty, equity_at_entry, exPos, exitRec,
                          nExits, today, l2fixed>>

\* line 156-157: the day has changed and the fetch of the new baseline raises
L2RollFail ==
    /\ engine = "live2" /\ pc = "start"
    /\ \E k \in ExErr :
           /\ today # last_day
           /\ last_day' = today
           /\ L2Raise(L2Cyc, k)
           /\ UNCHANGED <<in_pos, entry, sl, tp, qty, equity_at_entry, start_equity, exPos,
                          exitRec, nExits, today, haltDay, baseDay, l2fixed>>

\* line 160-176: fetch_total_equity_quote, latest_candles or spread_ok raises
L2Fail ==
    /\ engine = "live2" /\ pc = "start"
    /\ \E r \in DayStart, k \in ExErr :
           /\ L2Roll(r)
           /\ L2Raise(L2Cyc, k)
           /\ UNCHANGED <<in_pos, entry, sl, tp, qty, equity_at_entry, exPos, exitRec,
                          nExits, today, haltDay, l2fixed>>

\* line 176-178: the spread filter rejects the cycle
L2SpreadSkip ==
    /\ engine = "live2" /\ pc = "start"
    /\ \E r \in DayStart, cur \in Equities, book \in Books :
           /\ L2Roll(r)
           /\ ~HaltCond(Baseline(r), cur)
           /\ ~spread_ok(book)
           /\ pc' = "sleep" /\ cyc' = [L2Cyc EXCEPT !.due = in_pos /\ book # "none"]
           /\ UNCHANGED <<in_pos, entry, sl, tp, qty, equity_at_entry, exPos, exitRec,
                          nExits, today, haltDay, l2fixed>>

\* line 192-194
SpendQuote(free_q) ==
    LET max_spend == RMul(free_q, RSub(One, FEE_SLIP_BUFFER))
        lower     == IF RLt(FIXED_SPEND_QUOTE, max_spend) THEN FIXED_SPEND_QUOTE
                     ELSE max_spend
    IN  RMax(MIN_NOTIONAL_QUOTE, lower)

\* a comparison that lets the equal case through
FeeEdgeRejectStrict(gross_tp, est_fees) ==
    RLt(gross_tp, RMul(est_fees, FEE_EDGE_BUFFER))

\* line 212: the comparison of the fee-edge check
FeeEdgeReject(gross_tp, est_fees) ==
    RLe(gross_tp, RMul(est_fees, FEE_EDGE_BUFFER))

\* line 208-210: the fee rates the estimate takes for the two legs
entry_fee_rate == IF USE_MAKER THEN L2_MAKER_FEE_RATE ELSE TAKER_FEE_RATE

exit_fee_rate ==
    IF USE_MAKER /\ MAKER_TP_POST THEN L2_MAKER_FEE_RATE ELSE TAKER_FEE_RATE

\* line 205-213: the expected gain at TP does not beat the round-trip fees
FeeEdgeSkip(price, atr, free_q) ==
    LET spend    == SpendQuote(free_q)
        est_qty  == RDiv(spend, price)
        gross_tp == RMul(est_qty, RMul(Rat(3, 2), atr))
        est_fees == RMul(RAdd(entry_fee_rate, exit_fee_rate), spend)
    IN  FeeEdgeReject(gross_tp, est_fees)

\* line 219-220
EntryQty(price, free_q) ==
    floor_qty_to_precision(RMul(RDiv(SpendQuote(free_q), price),
                                RSub(One, FEE_SLIP_BUFFER)))

\* line 183-198: the skips before SL and TP are computed
EarlySkip(atr, free_q) ==
    \/ RLe(atr, Zero)
    \/ RLt(free_q, MIN_NOTIONAL_QUOTE)
    \/ RLt(SpendQuote(free_q), MIN_NOTIONAL_QUOTE)

\* line 221: amt_min and qty < amt_min (a minimum of Zero stands for a market that
\* reports none: amt_min is 0.0 then, which is falsy)
QtyBelowMin(q, min_amount) == min_amount # Zero /\ RLt(q, min_amount)

QtySkip(price, free_q) == QtyBelowMin(EntryQty(price, free_q), L2_amt_min)

\* line 201-202, 220: what an entry attempt leaves in sl, tp and qty
L2Targets(price, atr, free_q) ==
    IF EarlySkip(atr, free_q) THEN UNCHANGED <<sl, tp, qty>>
    ELSE /\ sl' = RSub(price, atr)
         /\ tp' = RAdd(price, RMul(Rat(3, 2), atr))
         /\ IF FeeEdgeSkip(price, atr, free_q) THEN qty' = qty
            ELSE qty' = EntryQty(price, free_q)

\* line 181-224: a long signal without a position, and one of the skips
L2EntrySkip ==
    /\ engine = "live2" /\ pc = "start"
    /\ \E r \in DayStart, cur \in Equities, price \in Closes, atr \in Atrs, free_q \in Frees,
          sig \in BOOLEAN :
           /\ L2Roll(r)
           /\ ~HaltCond(Baseline(r), cur)
           /\ ~in_pos /\ sig
           /\ \/ EarlySkip(atr, free_q)
              \/ FeeEdgeSkip(price, atr, free_q)
              \/ QtySkip(price, free_q)
           /\ L2Targets(price, atr, free_q)
           /\ pc' = "sleep"
           /\ cyc' = [L2Cyc EXCEPT !.sig = sig,
                                   !.rej = ~EarlySkip(atr, free_q)
                                           /\ FeeEdgeSkip(price, atr, free_q)]
           /\ UNCHANGED <<in_pos, entry, equity_at_entry, exPos, exitRec, nExits, today,
                          haltDay, l2fixed>>

\* line 102-103, 228: the maker entry price, MAKER_ENTRY_OFFSET_BPS below the last
MAKER_ENTRY_OFFSET_BPS == Rat(5, 1)
LimitPx(price) == RSub(price, RMul(price, RDiv(MAKER_ENTRY_OFFSET_BPS, Rat(10000, 1))))

\* line 232, 251: the entry order of the cycle and what became of it: "filled",
\* "unfilled" (wait_fill_or_cancel returned False), "refused" (InvalidOrder or
\* InsufficientFunds) or "error" (any other exception)
EntryOrder(res) ==
    [type |-> IF USE_MAKER THEN "limit" ELSE "market", side |-> "buy", res |-> res]

\* a refused entry that is placed once more, as a market order that fills
RefusedRetried(c) ==
    [c EXCEPT !.sent = <<EntryOrder("refused"),
                         [type |-> "market", side |-> "buy", res |-> "filled"]>>]

\* line 243-246, 256-259: the handlers print, sleep and continue
Refused(c) == [c EXCEPT !.sent = <<EntryOrder("refused")>>]

\* line 237-238, 252: of.get("average") or of.get("price") or limit_px for a
\* maker entry (the order filled at its limit); o.get("price") or price otherwise
EntryFillPx(price) == IF USE_MAKER THEN LimitPx(price) ELSE price

EntryGo(r, cur, price, atr, free_q, sig) ==
    /\ engine = "live2" /\ pc = "start"
    /\ ~in_pos /\ sig
    /\ ~HaltCond(Baseline(r), cur)
    /\ ~EarlySkip(atr, free_q)
    /\ ~FeeEdgeSkip(price, atr, free_q)
    /\ ~QtySkip(price, free_q)

\* history of a cycle that placed the market buy: the signal and the fee-edge
\* comparison it rests on, and whether it got to the exit block
Entered(price, atr, free_q, sig, ev) ==
    [L2Cyc EXCEPT !.entry = TRUE, !.sig = sig,
                  !.edge = ~FeeEdgeSkip(price, atr, free_q), !.exitEval = ev,
                  !.sent = <<EntryOrder("filled")>>]

\* line 267-270
ExitReason2(price, slx, tpx) ==
    IF RLe(price, slx) THEN "SL"
    ELSE IF RGe(price, tpx) THEN "TP"
    ELSE None

\* line 227-241, 247-255, 262-305: the entry order fills (a maker order within
\* the wait); the exit section runs on the new position (its SL is below and its
\* TP above the price, as atr > 0)
L2Enter ==
    /\ engine = "live2" /\ pc = "start"
    /\ \E r \in DayStart, cur \in Equities, price \in Closes, atr \in Atrs,
          free_q \in Frees, eq \in Equities, sig \in BOOLEAN :
           /\ EntryGo(r, cur, price, atr, free_q, sig)
           /\ L2Roll(r)
           /\ L2Targets(price, atr, free_q)
           /\ exPos' = RAdd(exPos, EntryQty(price, free_q))
           /\ entry' = EntryFillPx(price)
           /\ in_pos' = TRUE
           /\ equity_at_entry' = eq
           /\ ExitReason2(price, RSub(price, atr), RAdd(price, RMul(Rat(3, 2), atr))) = None
           /\ pc' = "sleep" /\ cyc' = Entered(price, atr, free_q, sig, TRUE)
           /\ UNCHANGED <<exitRec, nExits, today, haltDay, l2fixed>>

\* line 256-259: InsufficientFunds or InvalidOrder: sleep and continue
L2EnterRejected ==
    /\ engine = "live2" /\ pc = "start"
    /\ \E r \in DayStart, cur \in Equities, price \in Closes, atr \in Atrs, free_q \in Frees,
          sig \in BOOLEAN :
           /\ EntryGo(r, cur, price, atr, free_q, sig)
           /\ L2Roll(r)
           /\ L2Targets(price, atr, free_q)
           /\ pc' = "sleep" /\ cyc' = Refused([L2Cyc EXCEPT !.sig = sig])
           /\ UNCHANGED <<in_pos, entry, equity_at_entry, exPos, exitRec, nExits, today,
                          haltDay, l2fixed>>

\* line 232, 251: create_order raises something else, which the loop's handlers take
L2EnterFail ==
    /\ engine = "live2" /\ pc = "start"
    /\ \E r \in DayStart, cur \in Equities, price \in Closes, atr \in Atrs,
          free_q \in Frees, sig \in BOOLEAN :
           /\ EntryGo(r, cur, price, atr, free_q, sig)
           /\ L2Roll(r)
           /\ L2Targets(price, atr, free_q)
           /\ \E k \in ExErr : L2Raise([L2Cyc EXCEPT !.sig = sig, !.sent = <<EntryOrder("error")>>], k)
           /\ UNCHANGED <<in_pos, entry, equity_at_entry, exPos, exitRec, nExits, today,
                          haltDay, l2fixed>>

\* line 251-254: the buy fills, in_pos is set, and fetch_total_equity_quote raises
L2EnterNoBaseline ==
    /\ engine = "live2" /\ pc = "start"
    /\ \E r \in DayStart, cur \in Equities, price \in Closes, atr \in Atrs,
          free_q \in Frees, sig \in BOOLEAN :
           /\ EntryGo(r, cur, price, atr, free_q, sig)
           /\ L2Roll(r)
           /\ L2Targets(price, atr, free_q)
           /\ exPos' = RAdd(exPos, EntryQty(price, free_q))
           /\ entry' = EntryFillPx(price)
           /\ in_pos' = TRUE
           /\ \E k \in ExErr : L2Raise(Entered(price, atr, free_q, sig, FALSE), k)
           /\ UNCHANGED <<equity_at_entry, exitRec, nExits, today, haltDay, l2fixed>>

\* line 231-237: the maker entry is not filled (stale and cancelled, or ended by
\* the exchange): the cycle is skipped
L2MakerStale ==
    /\ engine = "live2" /\ pc = "start" /\ USE_MAKER
    /\ \E r \in DayStart, cur \in Equities, price \in Closes, atr \in Atrs, free_q \in Frees,
          sig \in BOOLEAN :
           /\ EntryGo(r, cur, price, atr, free_q, sig)
           /\ L2Roll(r)
           /\ L2Targets(price, atr, free_q)
           /\ pc' = "sleep"
           /\ cyc' = [L2Cyc EXCEPT !.sig = sig, !.sent = <<EntryOrder("unfilled")>>]
           /\ UNCHANGED <<in_pos, entry, equity_at_entry, exPos, exitRec, nExits, today,
                          haltDay, l2fixed>>

\* line 181, 262-272, 305: no entry attempt and no exit trigger
L2Hold ==
    /\ engine = "live2" /\ pc = "start"
    /\ \E r \in DayStart, cur \in Equities, price \in Closes, sig \in BOOLEAN :
           /\ L2Roll(r)
           /\ ~HaltCond(Baseline(r), cur)
           /\ in_pos \/ ~sig
           /\ in_pos => ExitReason2(price, sl, tp) = None
           /\ pc' = "sleep" /\ cyc' = [L2Cyc EXCEPT !.due = in_pos, !.exitEval = in_pos]
           /\ UNCHANGED <<in_pos, entry, sl, tp, qty, equity_at_entry, exPos, exitRec,
                          nExits, today, haltDay, l2fixed>>

ExitGo(r, cur, price) ==
    /\ engine = "live2" /\ pc = "start"
    /\ in_pos
    /\ ExitReason2(price, sl, tp) # None
    /\ ~HaltCond(Baseline(r), cur)

\* line 273-288: the ways through the sell.  A TP exit with USE_MAKER and
\* MAKER_TP_POST posts a maker order first: it fills ("makerFilled"), or it does
\* not and the market sell executes ("makerStaleSold") or raises
\* ("makerStaleFail"), or post_only_limit itself raises ("makerFail"); any other
\* exit is a market sell that executes ("sold") or raises ("fail").  Every
\* exception is printed by the handlers of line 285-288
ExitHows(price) ==
    IF ExitReason2(price, sl, tp) = "TP" /\ USE_MAKER /\ MAKER_TP_POST
    THEN {"makerFilled", "makerStaleSold", "makerStaleFail", "makerFail"}
    ELSE {"sold", "fail"}

Executed(how) == how \in {"sold", "makerFilled", "makerStaleSold"}

\* the orders of the sell, in their order
ExitOrders(how) ==
    LET o(t, res) == [type |-> t, side |-> "sell", res |-> res]
    IN  CASE how = "sold"           -> <<o("market", "filled")>>
          [] how = "fail"           -> <<o("market", "error")>>
          [] how = "makerFilled"    -> <<o("limit", "filled")>>
          [] how = "makerStaleSold" -> <<o("limit", "unfilled"), o("market", "filled")>>
          [] how = "makerStaleFail" -> <<o("limit", "unfilled"), o("market", "error")>>
          [] how = "makerFail"      -> <<o("limit", "error")>>

\* line 282-288: the sell executes, or raises and the error is printed
Sold(how) == IF Executed(how) THEN RSub(exPos, qty) ELSE exPos

L2ExitRecord(price, how, row) ==
    [reason |-> ExitReason2(price, sl, tp),
     mkt |-> IF how \in {"sold", "makerStaleSold"} THEN "sent"
             ELSE IF how \in {"fail", "makerStaleFail"} THEN "failed" ELSE "none",
     filled |-> Executed(how), open |-> RGt(Sold(how), Zero), row |-> row]

\* history of a cycle that went through the sell
Exited(how) == [L2Cyc EXCEPT !.due = TRUE, !.exitEval = TRUE, !.sent = ExitOrders(how)]

\* line 272-305: the sell, the equity reading, the reset and the CSV row
L2Exit ==
    /\ engine = "live2" /\ pc = "start"
    /\ \E r \in DayStart, cur \in Equities, price \in Closes : \E how \in ExitHows(price) :
           /\ ExitGo(r, cur, price)
           /\ L2Roll(r)
           /\ exPos' = Sold(how)
           /\ in_pos' = FALSE
           /\ equity_at_entry' = NoPx
           /\ exitRec' = L2ExitRecord(price, how, TRUE)
           /\ nExits' = nExits + 1
           /\ pc' = "sleep" /\ cyc' = Exited(how)
           /\ UNCHANGED <<entry, sl, tp, qty, today, haltDay, l2fixed>>

\* line 290: after the sell, fetch_total_equity_quote raises: no reset
L2ExitEquityFail ==
    /\ engine = "live2" /\ pc = "start"
    /\ \E r \in DayStart, cur \in Equities, price \in Closes :
       \E how \in ExitHows(price) :
           /\ ExitGo(r, cur, price)
           /\ L2Roll(r)
           /\ exPos' = Sold(how)
           /\ nExits' = nExits + 1
           /\ \E k \in ExErr : L2Raise(Exited(how), k)
           /\ UNCHANGED <<in_pos, entry, sl, tp, qty, equity_at_entry, exitRec, today,
                          haltDay, l2fixed>>

\* line 295-297: the reset is done and the CSV write raises
L2ExitWriteFail ==
    /\ engine = "live2" /\ pc = "start"
    /\ \E r \in DayStart, cur \in Equities, price \in Closes : \E how \in ExitHows(price) :
           /\ ExitGo(r, cur, price)
           /\ L2Roll(r)
           /\ exPos' = Sold(how)
           /\ in_pos' = FALSE
           /\ equity_at_entry' = NoPx
           /\ exitRec' = L2ExitRecord(price, how, FALSE)
           /\ nExits' = nExits + 1
           /\ L2Raise([Exited(how) EXCEPT !.ledger = "failed"], IOErr)
           /\ UNCHANGED <<entry, sl, tp, qty, today, haltDay, l2fixed>>

\* line 151, 305: the sleep is over and the next cycle begins
L2Sleep ==
    /\ engine = "live2" /\ pc = "sleep"
    /\ nExits < MaxExits
    /\ pc' = "start"
    /\ cyc' = IdleCyc
    /\ exitRec' = NoExit
    /\ UNCHANGED <<in_pos, exPos, nExits, l2vars, today, haltDay, baseDay, l2fixed>>

\* midnight UTC passes while the loop sleeps
Tick ==
    /\ engine \in {"live2", "paper"} /\ pc = "start"
    /\ today < MaxDays
    /\ today' = today + 1
    /\ UNCHANGED <<engine, USE_MAKER, pc, l3vars, cyvars, exvars, ghvars, l2vars, ppvars, haltDay,
                   baseDay, fnvars>>

\* live2.py 137-148: the state when run() enters its loop
InitLive2 ==
    /\ engine = "live2" /\ pc = "start" /\ USE_MAKER \in BOOLEAN
    /\ equity = Zero
    /\ in_pos = FALSE /\ pos_side = None /\ entry_px = NoPx
    /\ tp_px = NoPx /\ sl_px = NoPx /\ amount = Zero
    /\ bid = Zero /\ ask = Zero /\ trigger_long = FALSE /\ trigger_short = FALSE
    /\ filled = Zero /\ vwap = Zero /\ filled_add = Zero /\ vwap_add = Zero
    /\ stage = 0 /\ cur_notional = Zero /\ do_exit = None
    /\ exOpen = {} /\ exTrades = <<>> /\ exPos = Zero
    /\ sumQ = Zero /\ sumPQ = Zero /\ cyc = IdleCyc /\ exitRec = NoExit
    /\ exitQty = Zero /\ mkt = "none" /\ nExits = 0
    /\ entry = Zero /\ sl = Zero /\ tp = Zero /\ qty = Zero
    /\ equity_at_entry = NoPx /\ start_equity \in Equities /\ last_day = 1
    /\ start_equity_today = Zero /\ consec_losses = 0
    /\ today = 1 /\ haltDay = 0 /\ baseDay = 1
    /\ call = NoCall /\ ret = None /\ probe = NoProbe

NextLive2 ==
    \/ L2Halt
    \/ L2RollFail
    \/ L2Fail
    \/ L2SpreadSkip
    \/ L2EntrySkip
    \/ L2Enter
    \/ L2EnterRejected
    \/ L2EnterFail
    \/ L2EnterNoBaseline
    \/ L2MakerStale
    \/ L2Hold
    \/ L2Exit
    \/ L2ExitEquityFail
    \/ L2ExitWriteFail
    \/ L2Sleep
    \/ Tick

SpecLive2 == InitLive2 /\ [][NextLive2]_vars

---------------------------------------------------------------------------
(* paper.py: the loop of the paper trader; a poll cycle is one step.          *)

\* paper.py 19-24
risk_per_trade    == Rat(1, 100)
PAPER_EQUITY      == Rat(1000, 1)
daily_loss_limit  == Rat(3, 100)
max_consec_losses == 3

\* paper.py 144: except Exception
PaperCaught(e) == "loop error"

PaperRaise(c, k) ==
    IF PaperCaught(k) = None
    THEN pc' = "dead" /\ cyc' = c
    ELSE pc' = "sleep" /\ cyc' = [c EXCEPT !.failed = TRUE]

\* what paper.py does not have
ppfixed == <<engine, USE_MAKER, pos_side, entry_px, tp_px, sl_px, amount, cyvars, exvars,
             sumQ, sumPQ, exitQty, mkt, equity_at_entry, start_equity, haltDay, fnvars>>

\* paper.py 89-92: the daily controls after the day check
PaperBase == IF today # last_day THEN equity ELSE start_equity_today
PaperLosses == IF today # last_day THEN 0 ELSE consec_losses
PaperRoll ==
    /\ last_day' = today /\ start_equity_today' = PaperBase
    /\ baseDay' = IF today # last_day THEN today ELSE baseDay

\* paper.py 95
PaperHaltCond(eq, base) ==
    RLe(RDiv(RSub(eq, base), RMax(base, Eps)), RNeg(daily_loss_limit))

PaperHalt == PaperHaltCond(equity, PaperBase)

\* the entry test without the loss-streak condition of line 114
PaperWantsEntryAnyLosses(atr, sig, ok) ==
    /\ ~in_pos /\ ok
    /\ sig /\ RGt(atr, Zero)

\* paper.py 114-118: the entry block runs to the assignments
PaperWantsEntry(atr, sig, ok) ==
    /\ ~in_pos /\ PaperLosses < max_consec_losses /\ ok
    /\ sig /\ RGt(atr, Zero)

\* paper.py 116-122
PaperQty(atr) == RDiv(RMul(equity, risk_per_trade), RMax(atr, Eps))

\* paper.py 95-98, 114-143: a cycle without an entry and without an exit: the
\* halt, or no entry and no trigger; cyc.sig records a long signal that passed
\* the quality filters with a positive ATR (lines 107-118)
PaperHold ==
    /\ engine = "paper" /\ pc = "start"
    /\ \E price \in Closes, atr \in Atrs, sig, ok \in BOOLEAN :
           /\ PaperRoll
           /\ consec_losses' = PaperLosses
           /\ IF PaperHalt
              THEN cyc' = [IdleCyc EXCEPT !.pos = in_pos, !.halt = TRUE]
              ELSE /\ ~PaperWantsEntry(atr, sig, ok)
                   /\ in_pos => ExitReason2(price, sl, tp) = None
                   /\ cyc' = [IdleCyc EXCEPT !.pos = in_pos, !.due = in_pos,
                                             !.exitEval = in_pos,
                                             !.sig = sig /\ ok /\ RGt(atr, Zero)]
           /\ pc' = "sleep"
           /\ UNCHANGED <<equity, in_pos, entry, sl, tp, qty, exitRec, nExits, today,
                          ppfixed>>

\* paper.py 100-112: latest_candles, the signals or a filter raises
PaperFail ==
    /\ engine = "paper" /\ pc = "start"
    /\ \E k \in ExErr :
           /\ PaperRoll
           /\ consec_losses' = PaperLosses
           /\ ~PaperHalt
           /\ PaperRaise([IdleCyc EXCEPT !.pos = in_pos], k)
           /\ UNCHANGED <<equity, in_pos, entry, sl, tp, qty, exitRec, nExits, today,
                          ppfixed>>

\* paper.py 114-143: the simulated buy; the exit block runs on the new position
\* (its SL is below and its TP above the price, as atr > 0)
PaperEnter ==
    /\ engine = "paper" /\ pc = "start"
    /\ \E price \in Closes, atr \in Atrs, sig, ok \in BOOLEAN :
           /\ PaperRoll
           /\ consec_losses' = PaperLosses
           /\ ~PaperHalt
           /\ PaperWantsEntry(atr, sig, ok)
           /\ sl' = RSub(price, atr)
           /\ tp' = RAdd(price, RMul(Rat(3, 2), atr))
           /\ qty' = PaperQty(atr)
           /\ entry' = price
           /\ in_pos' = TRUE
           /\ ExitReason2(price, RSub(price, atr), RAdd(price, RMul(Rat(3, 2), atr))) = None
           /\ pc' = "sleep"
           /\ cyc' = [IdleCyc EXCEPT !.entry = TRUE, !.sig = sig, !.exitEval = TRUE]
           /\ UNCHANGED <<equity, exitRec, nExits, today, ppfixed>>

\* paper.py 129, 136
PaperPnl(reason) ==
    RMul(RSub(IF reason = "SL" THEN sl ELSE tp, entry), qty)

\* paper.py 127-141 without the log_trade call
PaperClose(price) ==
    /\ engine = "paper" /\ pc = "start"
    /\ PaperRoll
    /\ ~PaperHalt
    /\ in_pos
    /\ ExitReason2(price, sl, tp) # None
    /\ equity' = RAdd(equity, PaperPnl(ExitReason2(price, sl, tp)))
    /\ in_pos' = FALSE
    /\ consec_losses' = IF ExitReason2(price, sl, tp) = "SL" THEN PaperLosses + 1
                        ELSE 0
    /\ nExits' = nExits + 1
    /\ UNCHANGED <<entry, sl, tp, qty, today, ppfixed>>

PaperExitRecord(price, row) ==
    [reason |-> ExitReason2(price, sl, tp), mkt |-> "none", filled |-> TRUE,
     open |-> FALSE, row |-> row]

\* paper.py 127-143: SL or TP is hit and the trade is logged
PaperExit ==
    /\ engine = "paper" /\ pc = "start"
    /\ \E price \in Closes :
           /\ PaperClose(price)
           /\ exitRec' = PaperExitRecord(price, TRUE)
           /\ pc' = "sleep"
           /\ cyc' = [IdleCyc EXCEPT !.pos = TRUE, !.due = TRUE, !.exitEval = TRUE]

\* paper.py 73-79, 133, 140: log_trade raises after the position is closed
PaperExitWriteFail ==
    /\ engine = "paper" /\ pc = "start"
    /\ \E price \in Closes :
           /\ PaperClose(price)
           /\ exitRec' = PaperExitRecord(price, FALSE)
           /\ PaperRaise([IdleCyc EXCEPT !.pos = TRUE, !.due = TRUE, !.exitEval = TRUE,
                                         !.ledger = "failed"], IOErr)

\* paper.py 86, 143, 146: the sleep is over and the next cycle begins
PaperSleep ==
    /\ engine = "paper" /\ pc = "sleep"
    /\ nExits < MaxPaperExits
    /\ pc' = "start"
    /\ cyc' = IdleCyc
    /\ exitRec' = NoExit
    /\ UNCHANGED <<equity, in_pos, entry, sl, tp, qty, last_day, nExits, ppvars,
                   today, baseDay, ppfixed>>

\* paper.py 19-31, 84: the state when the loop is entered
InitPaper ==
    /\ engine = "paper" /\ pc = "start" /\ USE_MAKER = FALSE
    /\ equity = PAPER_EQUITY
    /\ in_pos = FALSE /\ pos_side = None /\ entry_px = NoPx
    /\ tp_px = NoPx /\ sl_px = NoPx /\ amount = Zero
    /\ bid = Zero /\ ask = Zero /\ trigger_long = FALSE /\ trigger_short = FALSE
    /\ filled = Zero /\ vwap = Zero /\ filled_add = Zero /\ vwap_add = Zero
    /\ stage = 0 /\ cur_notional = Zero /\ do_exit = None
    /\ exOpen = {} /\ exTrades = <<>> /\ exPos = Zero
    /\ sumQ = Zero /\ sumPQ = Zero /\ cyc = IdleCyc /\ exitRec = NoExit
    /\ exitQty = Zero /\ mkt = "none" /\ nExits = 0
    /\ entry = Zero /\ sl = Zero /\ tp = Zero /\ qty = Zero
    /\ equity_at_entry = NoPx /\ start_equity = Zero /\ last_day = 1
    /\ start_equity_today = PAPER_EQUITY /\ consec_losses = 0
    /\ today = 1 /\ haltDay = 0 /\ baseDay = 1
    /\ call = NoCall /\ ret = None /\ probe = NoProbe

NextPaper ==
    \/ PaperHold
    \/ PaperEnter
    \/ PaperFail
    \/ PaperExit
    \/ PaperExitWriteFail
    \/ PaperSleep
    \/ Tick

SpecPaper == InitPaper /\ [][NextPaper]_vars

---------------------------------------------------------------------------
(* The decision functions of the engines, called on their own with           *)
(* arguments drawn from small sets.                                          *)

\* what a call leaves alone
fnfixed == <<engine, USE_MAKER, pc, l3vars, cyvars, exvars, ghvars, l2vars, ppvars, today,
             haltDay, baseDay>>

\* bid / ask pairs around the TP and SL prices below, with the values that sit
\* on a tolerance boundary and just off it
EvalQuotes ==
    { <<Rat(86, 1), Rat(106, 1)>>, <<Rat(104, 1), Rat(105, 1)>>,
      <<Rat(87, 1), Rat(88, 1)>>, <<Rat(100, 1), Rat(101, 1)>>,
      <<Rat(104, 1), Rat(1049475, 10000)>>, <<Rat(104, 1), Rat(10494, 100)>>,
      <<Rat(94, 1), Rat(114, 1)>>, <<Rat(95, 1), Rat(96, 1)>>,
      <<Rat(112, 1), Rat(113, 1)>>, <<Rat(950475, 10000), Rat(96, 1)>>,
      <<Rat(9505, 100), Rat(96, 1)>> }
EvalTps == { Rat(105, 1), Rat(95, 1) }
EvalSls == { Rat(87, 1), Rat(113, 1) }
Sides == { "long", "short" }

\* live3.py 219-224 on one quote
CallExitReason ==
    /\ engine = "fn" /\ call = NoCall
    /\ \E side \in Sides, q \in EvalQuotes, tpx \in EvalTps, slx \in EvalSls :
           /\ call' = [fn |-> "ExitReason", side |-> side, bid |-> q[1], ask |-> q[2],
                       tp |-> tpx, sl |-> slx]
           /\ ret' = ExitReason(side, q[1], q[2], tpx, slx)
    /\ UNCHANGED <<fnfixed, probe>>

\* last closes and SL / TP prices of live2.py and paper.py, in either order
EvalCloses == { Rat(86, 1), Rat(87, 1), Rat(100, 1), Rat(105, 1), Rat(113, 1) }

\* live2.py 267-270 (paper.py 128, 135) on one close
CallExitReason2 ==
    /\ engine = "fn" /\ call = NoCall
    /\ \E price \in EvalCloses, slx \in EvalSls, tpx \in EvalTps :
           /\ call' = [fn |-> "ExitReason2", price |-> price, sl |-> slx, tp |-> tpx]
           /\ ret' = ExitReason2(price, slx, tpx)
    /\ UNCHANGED <<fnfixed, probe>>

\* no engine is running: the variables of the three loops at rest
NoEngine ==
    /\ pc = "start" /\ USE_MAKER = FALSE
    /\ equity = Zero
    /\ in_pos = FALSE /\ pos_side = None /\ entry_px = NoPx
    /\ tp_px = NoPx /\ sl_px = NoPx /\ amount = Zero
    /\ bid = Zero /\ ask = Zero /\ trigger_long = FALSE /\ trigger_short = FALSE
    /\ filled = Zero /\ vwap = Zero /\ filled_add = Zero /\ vwap_add = Zero
    /\ stage = 0 /\ cur_notional = Zero /\ do_exit = None
    /\ exOpen = {} /\ exTrades = <<>> /\ exPos = Zero
    /\ sumQ = Zero /\ sumPQ = Zero /\ cyc = IdleCyc /\ exitRec = NoExit
    /\ exitQty = Zero /\ mkt = "none" /\ nExits = 0
    /\ entry = Zero /\ sl = Zero /\ tp = Zero /\ qty = Zero
    /\ equity_at_entry = NoPx /\ start_equity = Zero /\ last_day = 1
    /\ start_equity_today = Zero /\ consec_losses = 0
    /\ today = 1 /\ haltDay = 0 /\ baseDay = 1

InitFn == engine = "fn" /\ NoEngine /\ call = NoCall /\ ret = None /\ probe = NoProbe

\* expected gross gains and fee estimates around the products with the buffer
EvalGross == { Zero, Rat(10, 1), Rat(54, 5), Rat(15, 1) }
EvalFees == { Zero, Rat(9, 1), Rat(25, 2) }

\* live2.py 212 on one pair
CallFeeEdgeReject ==
    /\ engine = "fn" /\ call = NoCall
    /\ \E g \in EvalGross, f \in EvalFees :
           /\ call' = [fn |-> "FeeEdgeReject", gross |-> g, fees |-> f]
           /\ ret' = FeeEdgeReject(g, f)
    /\ UNCHANGED <<fnfixed, probe>>

\* day-start and current equities: drops of exactly the limit of live2 (6 %) and
\* of paper (3 %), and drops just short of them
EvalBases == { Rat(1000, 1), Rat(930, 1) }
EvalCurs ==
    { Rat(1000, 1), Rat(971, 1), Rat(9700001, 10000), Rat(970, 1), Rat(941, 1),
      Rat(9400001, 10000), Rat(940, 1), Rat(930, 1), Rat(9021, 10), Rat(8742, 10),
      Rat(874, 1) }

\* live2.py 161 on one pair; a day-start equity of zero switches the test off
CallHaltCond ==
    /\ engine = "fn" /\ call = NoCall
    /\ \E base \in EvalBases \cup {Zero}, cur \in EvalCurs :
           /\ call' = [fn |-> "HaltCond", base |-> base, cur |-> cur]
           /\ ret' = HaltCond(base, cur)
    /\ UNCHANGED <<fnfixed, probe>>

\* paper.py 95 on one pair
CallPaperHaltCond ==
    /\ engine = "fn" /\ call = NoCall
    /\ \E base \in EvalBases, cur \in EvalCurs :
           /\ call' = [fn |-> "PaperHaltCond", base |-> base, cur |-> cur]
           /\ ret' = PaperHaltCond(cur, base)
    /\ UNCHANGED <<fnfixed, probe>>

---------------------------------------------------------------------------
(* The maker probes: test_maker_probe_v3.py (place_probe_maker_buys) and     *)
(* test_maker_probe_v4.py (place_or_adjust_buy) place one post-only buy.     *)

\* v4 line 32 / 42-43: the tick of the market
price_step == Rat(1, 100)

\* passes of the chase loop that fit into chase_sec (each sleeps one second)
MaxChasePolls == 2

\* the 1e-12 of safe_round_price: a positive price far below one tick
TinyPx == Rat(1, 1000000)

\* v4 line 34: limits.price.min, None (falsy) on markets that do not report one
MinPrices == { Zero, Rat(2, 100) }

\* prices the caller asks for, from one tick to five and one between two ticks
DesiredPx == { Rat(1, 100), Rat(2, 100), Rat(25, 1000), Rat(3, 100), Rat(4, 100),
               Rat(5, 100) }

\* v4 line 47-48 (v3 line 73-77)
step_floor(x, step) ==
    IF RGt(step, Zero) THEN RMul(RFloor(RDiv(x, step)), step) ELSE x

\* v4 line 53-60 (v3 line 79-89, price_step set)
safe_round_price(p, min_price) ==
    LET px1 == step_floor(p, price_step)
        px2 == IF min_price # Zero /\ RLt(px1, min_price) THEN min_price ELSE px1
    IN  IF RLe(px2, Zero)
        THEN RMax(IF min_price # Zero THEN min_price ELSE TinyPx, TinyPx)
        ELSE px2

\* v4 line 91-93: an exhausted budget or another error leaves the function as an
\* exception; v3 line 152-153: it is printed and the loop goes to the next order
ProbeFailure(ver) == IF ver = "v4" THEN "raised" ELSE "printed"

\* v4 line 78-80 (v3 line 126-127, 135): the first price and the retry budget
ProbeStart ==
    /\ engine = "probe" /\ probe.out = "none"
    /\ \E ver \in {"v3", "v4"}, d \in DesiredPx, m \in MinPrices,
          n \in 0..MaxChasePolls :
           probe' = [ver |-> ver, min |-> m, px |-> safe_round_price(d, m),
                     rej |-> NoPx, retries |-> 3, subs |-> 0, out |-> "trying",
                     why |-> "none", budget |-> IF ver = "v4" THEN n ELSE 0,
                     polls |-> 0, last_px |-> NoPx, oid |-> 0, rest |-> {},
                     nextId |-> 1, bid |-> NoPx, chase |-> <<>>]
    /\ UNCHANGED <<fnfixed, call, ret>>

\* v4 line 84-86 (v3 line 139-145): maker_limit returns an order
ProbeAccept ==
    /\ engine = "probe" /\ probe.out = "trying"
    /\ probe' = [probe EXCEPT !.subs = @ + 1, !.out = "placed",
                               !.last_px = probe.px, !.oid = probe.nextId,
                               !.rest = {probe.nextId}, !.nextId = @ + 1]
    /\ UNCHANGED <<fnfixed, call, ret>>

\* v4 line 87-92 (v3 line 146-151): the exchange rejects the order as taker and
\* the budget is not used up: one tick down, rounded again, and once more
ProbeRetry ==
    /\ engine = "probe" /\ probe.out = "trying" /\ probe.retries > 0
    /\ probe' = [probe EXCEPT !.subs = @ + 1, !.rej = probe.px,
                               !.px = safe_round_price(RSub(probe.px, price_step),
                                                       probe.min),
                               !.retries = @ - 1]
    /\ UNCHANGED <<fnfixed, call, ret>>

\* v4 line 89, 93 (v3 line 148, 152-153): a taker rejection with the budget used up
ProbeExhausted ==
    /\ engine = "probe" /\ probe.out = "trying" /\ probe.retries = 0
    /\ probe' = [probe EXCEPT !.subs = @ + 1, !.out = ProbeFailure(probe.ver),
                               !.why = "taker"]
    /\ UNCHANGED <<fnfixed, call, ret>>

\* v4 line 93 (v3 line 152-153): a rejection of another kind
ProbeRejectOther ==
    /\ engine = "probe" /\ probe.out = "trying"
    /\ probe' = [probe EXCEPT !.subs = @ + 1, !.out = ProbeFailure(probe.ver),
                               !.why = "other"]
    /\ UNCHANGED <<fnfixed, call, ret>>

\* bids the chase loop reads
ChaseBids == { Rat(1, 100), Rat(2, 100), Rat(35, 1000), Rat(6, 100) }

\* v4 line 103-118: the bid has moved above the resting price: cancel (errors
\* swallowed), place at the floored bid, and on a taker rejection place once more
\* one tick down; a second failure goes to the outer except with the old id
Replace(b, cancelled, r1, r2) ==
    LET new_px  == safe_round_price(step_floor(b, price_step), probe.min)
        nudged  == safe_round_price(RSub(new_px, price_step), probe.min)
        left    == IF cancelled THEN probe.rest \ {probe.oid} ELSE probe.rest
        gone    == [probe EXCEPT !.rest = left, !.bid = b, !.polls = @ + 1]
        on(q)   == [gone EXCEPT !.oid = probe.nextId, !.nextId = @ + 1,
                                !.rest = left \cup {probe.nextId}, !.last_px = q]
    IN  IF r1 = "ok"
        THEN [on(new_px) EXCEPT !.chase = <<[px |-> new_px, ok |-> TRUE]>>]
        ELSE IF r1 = "other"
        THEN [gone EXCEPT !.chase = <<[px |-> new_px, ok |-> FALSE]>>]
        ELSE IF r2 = "ok"
        THEN [on(nudged) EXCEPT !.chase = <<[px |-> new_px, ok |-> FALSE],
                                            [px |-> nudged, ok |-> TRUE]>>]
        ELSE [gone EXCEPT !.chase = <<[px |-> new_px, ok |-> FALSE],
                                      [px |-> nudged, ok |-> FALSE]>>]

\* v4 line 98-122: one pass of the chase loop while time is left; the quote is
\* read, and the order is replaced when the floored bid is above its price
ChasePoll ==
    /\ engine = "probe" /\ probe.out = "placed" /\ probe.ver = "v4"
    /\ probe.polls < probe.budget
    /\ \E b \in ChaseBids, cancelled \in BOOLEAN, r1 \in {"ok", "taker", "other"},
          r2 \in {"ok", "err"} :
           probe' = IF RGt(step_floor(b, price_step), probe.last_px)
                    THEN Replace(b, cancelled, r1, r2)
                    ELSE [probe EXCEPT !.bid = b, !.polls = @ + 1, !.chase = <<>>]
    /\ UNCHANGED <<fnfixed, call, ret>>

\* v4 line 100, 121-122: best_bid_ask raises; the pass ends in the outer except
ChaseQuoteFail ==
    /\ engine = "probe" /\ probe.out = "placed" /\ probe.ver = "v4"
    /\ probe.polls < probe.budget
    /\ probe' = [probe EXCEPT !.bid = NoPx, !.polls = @ + 1, !.chase = <<>>]
    /\ UNCHANGED <<fnfixed, call, ret>>

\* v4 line 98, 124: the time is up and the id is returned
ChaseReturn ==
    /\ engine = "probe" /\ probe.out = "placed" /\ probe.ver = "v4"
    /\ probe.polls = probe.budget
    /\ probe' = [probe EXCEPT !.out = "returned"]
    /\ UNCHANGED <<fnfixed, call, ret>>

InitProbe ==
    engine = "probe" /\ NoEngine /\ call = NoCall /\ ret = None /\ probe = NoProbe

NextProbe ==
    \/ ProbeStart
    \/ ProbeAccept
    \/ ProbeRetry
    \/ ProbeExhausted
    \/ ProbeRejectOther
    \/ ChasePoll
    \/ ChaseQuoteFail
    \/ ChaseReturn

SpecProbe == InitProbe /\ [][NextProbe]_vars

---------------------------------------------------------------------------
(* live2.py 109-127: wait_fill_or_cancel(order_id, stale_sec), one call at a *)
(* time; call holds its locals and ret what it returned ("True" and "False"  *)
(* for the two booleans, None while it runs).                                *)

\* the largest stale_sec of a call, in seconds
MaxStale == 3

\* seconds one pass of the loop can take: the sleep of one second (line 122),
\* and the fetch in front of it
PassSecs == { 1, 2 }

\* what fetch_order reports in "status"; the empty string stands for None
Statuses == { "", "open", "partially_filled", "closed", "CLOSED", "filled", "canceled",
              "cancelled", "rejected", "expired", "Expired" }

\* str.lower() on the statuses above
Lower(st) ==
    CASE st = "CLOSED"  -> "closed"
      [] st = "Expired" -> "expired"
      [] OTHER          -> st

\* a reading of the status in which an expired order keeps being polled
PollResultNoExpiry(st) ==
    IF Lower(st) \in {"closed", "filled"} THEN "filled"
    ELSE IF Lower(st) \in {"canceled", "cancelled", "rejected"} THEN "dead"
    ELSE "open"

\* line 115-119
PollResult(st) ==
    IF Lower(st) \in {"closed", "filled"} THEN "filled"
    ELSE IF Lower(st) \in {"canceled", "cancelled", "rejected", "expired"} THEN "dead"
    ELSE "open"

Waiting == call.fn = "wait_fill_or_cancel" /\ ~call.done

\* the fill waits of live3.py: the entry wait (line 154) and the staging wait
\* (line 194), in seconds
ENTRY_WAIT_SEC == 25
STAGE_WAIT_SEC == 20

FillWaiting == call.fn = "fill_wait" /\ ~call.done

\* a loop test that is still true when the time is just up
TimeLeftInclusive(t, limit) == t <= limit

\* live2.py 112, live3.py 154 and 194: while time.time() - t0 < limit
TimeLeft(t, limit) == t < limit

\* line 111: t0 = time.time()
WaitCall ==
    /\ engine = "wait" /\ ~Waiting /\ ~FillWaiting
    /\ \E n \in 0..MaxStale :
           call' = [fn |-> "wait_fill_or_cancel", stale_sec |-> n, t |-> 0, polls |-> 0,
                    cancels |-> 0, last |-> "none", done |-> FALSE, how |-> "none"]
    /\ ret' = None
    /\ UNCHANGED <<fnfixed, probe>>

\* line 112-122: a pass whose fetch_order returns a status
WaitPollStatus ==
    /\ engine = "wait" /\ Waiting /\ TimeLeft(call.t, call.stale_sec)
    /\ \E st \in Statuses, d \in PassSecs :
           IF PollResult(st) = "open"
           THEN /\ call' = [call EXCEPT !.polls = @ + 1, !.last = st, !.t = @ + d]
                /\ ret' = ret
           ELSE /\ call' = [call EXCEPT !.polls = @ + 1, !.last = st, !.done = TRUE,
                                        !.how = "status"]
                /\ ret' = IF PollResult(st) = "filled" THEN "True" ELSE "False"
    /\ UNCHANGED <<fnfixed, probe>>

\* line 120-122: fetch_order raises; the pass sleeps and the loop goes on
WaitPollFail ==
    /\ engine = "wait" /\ Waiting /\ TimeLeft(call.t, call.stale_sec)
    /\ \E d \in PassSecs :
           call' = [call EXCEPT !.polls = @ + 1, !.last = "error", !.t = @ + d]
    /\ ret' = ret
    /\ UNCHANGED <<fnfixed, probe>>

\* line 123-127: the time is up: one cancel, whose error is swallowed
WaitTimeout ==
    /\ engine = "wait" /\ Waiting /\ ~TimeLeft(call.t, call.stale_sec)
    /\ \E ok \in BOOLEAN :
           call' = [call EXCEPT !.cancels = @ + 1, !.done = TRUE,
                                !.how = IF ok THEN "stale" ELSE "staleCancelFailed"]
    /\ ret' = "False"
    /\ UNCHANGED <<fnfixed, probe>>

\* live3.py 152-153 (192-193): t0 = time.time() of a fill wait
FillWaitCall ==
    /\ engine = "wait" /\ ~Waiting /\ ~FillWaiting
    /\ \E n \in {ENTRY_WAIT_SEC, STAGE_WAIT_SEC} :
           call' = [fn |-> "fill_wait", limit |-> n, t |-> 0, polls |-> 0,
                    done |-> FALSE, how |-> "none"]
    /\ ret' = None
    /\ UNCHANGED <<fnfixed, probe>>

\* live3.py 154-162 (194-202): a pass whose fetch_my_trades returns: trades of the
\* order's side end the wait, otherwise the pass sleeps one second
FillWaitPass ==
    /\ engine = "wait" /\ FillWaiting /\ TimeLeft(call.t, call.limit)
    /\ \E fill \in BOOLEAN, d \in PassSecs :
           call' = IF fill
                   THEN [call EXCEPT !.polls = @ + 1, !.done = TRUE, !.how = "filled"]
                   ELSE [call EXCEPT !.polls = @ + 1, !.t = @ + d]
    /\ ret' = ret
    /\ UNCHANGED <<fnfixed, probe>>

\* live3.py 155 (195): fetch_my_trades raises and the exception leaves the wait
FillWaitFail ==
    /\ engine = "wait" /\ FillWaiting /\ TimeLeft(call.t, call.limit)
    /\ call' = [call EXCEPT !.polls = @ + 1, !.done = TRUE, !.how = "raised"]
    /\ ret' = ret
    /\ UNCHANGED <<fnfixed, probe>>

\* live3.py 154, 164 (194, 203): the time is up
FillWaitTimeout ==
    /\ engine = "wait" /\ FillWaiting /\ ~TimeLeft(call.t, call.limit)
    /\ call' = [call EXCEPT !.done = TRUE, !.how = "timeout"]
    /\ ret' = ret
    /\ UNCHANGED <<fnfixed, probe>>

InitWait ==
    engine = "wait" /\ NoEngine /\ call = NoCall /\ ret = None /\ probe = NoProbe

NextWait ==
    \/ WaitCall
    \/ WaitPollStatus
    \/ WaitPollFail
    \/ WaitTimeout
    \/ FillWaitCall
    \/ FillWaitPass
    \/ FillWaitFail
    \/ FillWaitTimeout

SpecWait == InitWait /\ [][NextWait]_vars

\* the waits and the chase loop of the probe, each with a process that keeps
\* running: a pass that can be taken is taken
SpecWaitsFair ==
    /\ InitWait \/ InitProbe
    /\ [][NextWait \/ NextProbe]_vars
    /\ WF_vars(WaitPollStatus \/ WaitPollFail \/ WaitTimeout)
    /\ WF_vars(FillWaitPass \/ FillWaitFail \/ FillWaitTimeout)
    /\ WF_vars(ChaseReturn \/ ChaseQuoteFail \/ ChasePoll)

---------------------------------------------------------------------------
(* The rounding and sizing helpers, called on their own.                     *)

\* decimal places a market can report for its prices and amounts
Precisions == {0, 1, 2}
\* values to round: below one step, between steps, and on a step
RoundInputs == { Rat(1, 2), Rat(7, 1), Rat(2599, 100), Rat(123456, 1000) }
\* steps of the probes (load_market_info)
Steps == { Rat(1, 100), Rat(1, 2), One }

\* live3.py 67-77: round_amt / round_price on a market of `prec` decimal places
CallFloorStep ==
    /\ engine = "fn" /\ call = NoCall
    /\ \E x \in RoundInputs, prec \in Precisions :
           /\ call' = [fn |-> "FloorStep", x |-> x, step |-> Rat(1, Pow10(prec))]
           /\ ret' = FloorStep(x, prec)
    /\ UNCHANGED <<fnfixed, probe>>

\* test_maker_probe_v2.py 92-95
CallStepFloor ==
    /\ engine = "fn" /\ call = NoCall
    /\ \E x \in RoundInputs, step \in Steps :
           /\ call' = [fn |-> "step_floor", x |-> x, step |-> step]
           /\ ret' = step_floor(x, step)
    /\ UNCHANGED <<fnfixed, probe>>

\* a denominator that a binary floating-point number can have
RECURSIVE IsPow2(_)
IsPow2(n) == n = 1 \/ (n % 2 = 0 /\ IsPow2(n \div 2))

\* what stands for the distance to the next double
Ulp == Rat(1, 1000000)

\* x / y in floating point: the quotient when a double can hold it, and else the
\* double nearest to it, which lies just below or just above
FloatQuot(x, y) ==
    LET q == RDiv(x, y)
    IN  IF IsPow2(q[2]) THEN {q} ELSE {RSub(q, Ulp), RAdd(q, Ulp)}

\* test_maker_probe_v2.py 111-129 (test_maker_probe_v4.py 62-71, where amt_step
\* is always set).  A limit or step of Zero stands for None; `needed` is the
\* value min_cost / px has taken.  Without amt_step the amount goes through
\* round_amt of a market without amount precision, which returns it
safe_round_amount(a, px, mi, needed) ==
    LET amt0 == IF mi.amt_step # Zero THEN step_floor(a, mi.amt_step) ELSE a
        amt1 == IF mi.min_amt # Zero /\ RLt(amt0, mi.min_amt) THEN mi.min_amt ELSE amt0
        need == IF mi.amt_step # Zero
                THEN step_floor(RAdd(needed, mi.amt_step), mi.amt_step)
                ELSE needed
    IN  IF mi.min_cost # Zero /\ RLt(RMul(px, amt1), mi.min_cost)
        THEN RMax(amt1, need)
        ELSE amt1

\* market limits of the probes: none, or one that binds
AmtSteps == { Zero, Rat(1, 100), One }
MinAmts == { Zero, Rat(1, 10), Rat(2, 1) }
MinCosts == { Zero, Rat(5, 1), Rat(7, 1) }
ProbePrices == { Rat(5, 2), Rat(3, 1), Rat(100, 1) }
\* per_order_usd
OrderUsd == { Rat(1, 1), Rat(30, 1) }

\* test_maker_probe_v2.py 158-159: amt = per_order_usd / px, then
\* safe_round_amount(amt, px, mi)
CallSafeRoundAmount ==
    /\ engine = "fn" /\ call = NoCall
    /\ \E usd \in OrderUsd, px \in ProbePrices, st \in AmtSteps, ma \in MinAmts,
          mc \in MinCosts :
        \E a \in FloatQuot(usd, px), needed \in FloatQuot(mc, px) :
           /\ call' = [fn |-> "safe_round_amount", quote |-> usd, ref |-> px,
                        amt_step |-> st, min_amt |-> ma, min_cost |-> mc]
           /\ ret' = safe_round_amount(a, px, [amt_step |-> st, min_amt |-> ma,
                                               min_cost |-> mc], needed)
    /\ UNCHANGED <<fnfixed, probe>>

\* equity fractions to spend, reference prices and minimum amounts of live3
SizeQuotes == { Rat(700, 1), Rat(50, 1) }
SizeRefs == { Rat(1, 2), Rat(100, 1), Rat(106, 1) }
SizeMins == { Zero, Rat(1, 1), Rat(10, 1) }

\* live3.py 144-146, 184-186: the amount of an entry or staging order
CallSizedAmt ==
    /\ engine = "fn" /\ call = NoCall
    /\ \E quote \in SizeQuotes, ref \in SizeRefs, m \in SizeMins :
           /\ call' = [fn |-> "SizedAmt", quote |-> quote, ref |-> ref, min_amt |-> m]
           /\ ret' = SizedAmt(quote, ref, m)
    /\ UNCHANGED <<fnfixed, probe>>

\* live3.py 146-149: px = round_price(bid * (1 - PRICE_IMPROVE_PCT)) on a market of
\* `prec` decimal places, handed to maker_limit when amt > 0; 227-233: px_try =
\* round_price(ref * (1 + PRICE_IMPROVE_PCT)), handed to maker_limit
MakerPrice(side, ref, prec) ==
    FloorStep(RMul(ref, IF side = "buy" THEN RSub(One, PRICE_IMPROVE_PCT)
                        ELSE RAdd(One, PRICE_IMPROVE_PCT)), prec)

CallMakerPrice ==
    /\ engine = "fn" /\ call = NoCall
    /\ \E side \in {"buy", "sell"}, ref \in SizeRefs, prec \in Precisions,
          quote \in SizeQuotes :
           /\ call' = [fn |-> "maker_limit", side |-> side, ref |-> ref,
                        step |-> Rat(1, Pow10(prec)),
                        submitted |-> side = "sell" \/ RGt(SizedAmt(quote, ref, Zero), Zero)]
           /\ ret' = MakerPrice(side, ref, prec)
    /\ UNCHANGED <<fnfixed, probe>>

\* last prices and minimum amounts of live2: a price at which the spend buys
\* less than one step of the amount, and a market without a minimum amount
EntryPrices == { Rat(100, 1), Rat(1000, 1) }
EntryMins == { Zero, Rat(1, 10) }

\* live2.py 219-224, 232 / 251: the quantity of the entry order, and whether the
\* cycle gets past the minimum-amount skip to the order
CallEntryQty ==
    /\ engine = "fn" /\ call = NoCall
    /\ \E price \in EntryPrices, free_q \in Frees, m \in EntryMins :
           /\ ~EarlySkip(One, free_q)
           /\ call' = [fn |-> "entry_qty", price |-> price, free |-> free_q,
                        min_amt |-> m,
                        submitted |-> ~QtyBelowMin(EntryQty(price, free_q), m)]
           /\ ret' = EntryQty(price, free_q)
    /\ UNCHANGED <<fnfixed, probe>>

\* a trade of the account as fetch_my_trades reports it, with the order it came
\* from: the entry order the wait is for, or the order that closed the position
\* before (the loop reads neither tr["order"] nor the id of its own order)
TradeOf(side, from) ==
    [side |-> side, a |-> One, p |-> Rat(100, 1), n |-> 0, from |-> from]

\* what the last 120 s of the account's trades can hold when an entry wait polls
FillWindows ==
    { <<>>,
      <<TradeOf("buy", "entry")>>,
      <<TradeOf("buy", "exit")>>,
      <<TradeOf("sell", "exit"), TradeOf("buy", "entry")>> }

\* live3.py 152-167: one poll of the entry wait on a window of trades: the
\* quantity it takes for filled, which opens the position when it is > 0
CallEntryFills ==
    /\ engine = "fn" /\ call = NoCall
    /\ \E side \in {"buy", "sell"}, w \in FillWindows :
           /\ call' = [fn |-> "entry_fills", side |-> side, trades |-> w]
           /\ ret' = FoldFills(LastTrades(w), side, Zero, Zero)[1]
    /\ UNCHANGED <<fnfixed, probe>>

NextFn ==
    \/ CallExitReason
    \/ CallExitReason2
    \/ CallFeeEdgeReject
    \/ CallHaltCond
    \/ CallPaperHaltCond
    \/ CallFloorStep
    \/ CallStepFloor
    \/ CallSafeRoundAmount
    \/ CallSizedAmt
    \/ CallMakerPrice
    \/ CallEntryQty
    \/ CallEntryFills

SpecFn == InitFn /\ [][NextFn]_vars

---------------------------------------------------------------------------
(* The engines and the calls together.                                       *)

Init == InitLive3 \/ InitLive2 \/ InitPaper \/ InitFn \/ InitProbe \/ InitWait

Next == NextLive3 \/ NextLive2 \/ NextPaper \/ NextFn \/ NextProbe \/ NextWait

Spec == Init /\ [][Next]_vars

---------------------------------------------------------------------------
(* Properties *)

Flat == pc = "sleep" /\ ~in_pos

\* C1: when the staged engine has gone back to FLAT after a stop-loss trigger,
\* the position is not still open on the exchange with no market order sent:
\* the exit orders executed for the position's amount, or a market order was
\* sent, or the exchange holds no position any more.
C1_StopLossExitGuaranteed ==
    (Flat /\ exitRec.reason = "SL")
        => (exitRec.filled \/ exitRec.mkt = "sent" \/ ~exitRec.open)

\* C7: a fill the exchange reports more than once is folded into the position
\* (quantity and entry VWAP) at most once.
C7_FillAppliedOnce ==
    \A i \in 1..Len(exTrades) : exTrades[i].n <= 1

\* C8: after any sequence of entry and staging fills, the quantity is the sum of
\* the fill amounts and entry VWAP times quantity is the sum of price times
\* amount over the fills; the batch being accumulated by a wait counts with the
\* fills it has folded so far.
C8_VwapExact ==
    IF in_pos
    THEN /\ RAdd(amount, filled_add) = sumQ
         /\ RAdd(RMul(entry_px, amount), RMul(vwap_add, filled_add)) = sumPQ
    ELSE /\ filled = sumQ
         /\ RMul(vwap, filled) = sumPQ

\* a position built from an entry batch and a staging batch at different prices
C8_Witness ==
    /\ in_pos /\ pc = "sleep"
    /\ entry_px[2] # 1
    /\ amount = sumQ
    /\ RMul(entry_px, amount) = sumPQ

\* C9: with a position open, TP and SL are the entry VWAP moved by TP_PCT = 4.9 %
\* and SL_PCT = 13.44 %: long tp = 1.049 vwap, sl = 0.8656 vwap; short
\* tp = 0.951 vwap, sl = 1.1344 vwap; a long entry VWAP of 100 has 104.90 / 86.56.
C9_TargetsFromVwap ==
    in_pos =>
        /\ pos_side = "long" =>
              /\ RMul(tp_px, Rat(1000, 1)) = RMul(entry_px, Rat(1049, 1))
              /\ RMul(sl_px, Rat(10000, 1)) = RMul(entry_px, Rat(8656, 1))
        /\ pos_side = "short" =>
              /\ RMul(tp_px, Rat(1000, 1)) = RMul(entry_px, Rat(951, 1))
              /\ RMul(sl_px, Rat(10000, 1)) = RMul(entry_px, Rat(11344, 1))
        /\ (pos_side = "long" /\ entry_px = Rat(100, 1)) =>
              /\ tp_px = Rat(10490, 100)
              /\ sl_px = Rat(8656, 100)
        /\ TpOf("long", Rat(100, 1)) = Rat(10490, 100)
        /\ SlOf("long", Rat(100, 1)) = Rat(8656, 100)

\* a short position whose entry price was merged with a staging batch
C9_Witness ==
    /\ in_pos /\ pos_side = "short"
    /\ entry_px[2] # 1
    /\ RMul(tp_px, Rat(1000, 1)) = RMul(entry_px, Rat(951, 1))

\* C10: the quantity is never negative, and in_pos, quantity > 0 and the entry
\* VWAP, side, TP and SL being defined all hold together or not at all.
C10_PositionFieldsTogether ==
    /\ RGe(amount, Zero)
    /\ in_pos <=> RGt(amount, Zero)
    /\ in_pos <=> entry_px # NoPx
    /\ in_pos <=> pos_side # None
    /\ in_pos <=> tp_px # NoPx
    /\ in_pos <=> sl_px # NoPx

\* the engine is flat again after an exit
C10_Witness ==
    /\ Flat /\ exitRec.reason # None
    /\ amount = Zero /\ entry_px = NoPx /\ pos_side = None

\* C2: the position is reset to FLAT only after exit orders for the full
\* position quantity have executed; an exit that failed or did not fill leaves
\* in_pos true and writes no trade row.
C2_ResetOnlyAfterConfirmedExit ==
    /\ exitRec.reason # None => exitRec.filled
    /\ exitRec.row => exitRec.filled

\* C3: a cycle in which the daily-loss halt holds while a position is open still
\* runs the TP/SL exit evaluation.
C3_ExitRunsWhileHalted ==
    (pc = "sleep" /\ cyc.halt /\ cyc.pos) => cyc.exitEval

\* C4: after the daily-loss halt has triggered, no entry order is placed on the
\* same UTC day, whatever the later equity readings are.
C4_NoEntryAfterHalt ==
    (pc = "sleep" /\ cyc.entry) => haltDay # today

\* C5: a cycle that starts with a position open and valid quotes evaluates the
\* TP/SL exit conditions, also when a staging placement raises and when the
\* spread filter rejects the cycle.
C5_ExitEvaluatedEveryCycle ==
    (pc = "sleep" /\ cyc.due) => cyc.exitEval

\* C6: an error raised in a poll cycle is caught: run() never terminates, and
\* the step after a failed cycle's sleep is the start of the next cycle.
C6_ErrorsReturnToLoop ==
    /\ [](pc # "dead")
    /\ [][(pc = "sleep" /\ cyc.failed) => pc' = "start"]_vars

\* a cycle failed while a position was open, and the loop sleeps
C6_Witness ==
    /\ pc = "sleep" /\ cyc.failed /\ in_pos

\* the reference conditions of the exit evaluation, on the arguments of a call
RefHitTp ==
    IF call.side = "long"
    THEN RGe(call.ask, RMul(call.tp, RSub(One, Rat(5, 10000))))
    ELSE RLe(call.bid, RMul(call.tp, RAdd(One, Rat(5, 10000))))

RefHitSl ==
    IF call.side = "long"
    THEN RLe(call.bid, RMul(call.sl, RAdd(One, Rat(5, 10000))))
    ELSE RGe(call.ask, RMul(call.sl, RSub(One, Rat(5, 10000))))

\* C11: when the take-profit and the stop-loss condition both hold in one exit
\* evaluation, the exit reason is the stop-loss, for long and short positions of
\* live3.py and for the close-based evaluation of live2.py and paper.py.
C11_StopLossDominates ==
    /\ (call.fn = "ExitReason" /\ RefHitTp /\ RefHitSl) => ret = "SL"
    /\ (call.fn = "ExitReason2" /\ RLe(call.price, call.sl) /\ RGe(call.price, call.tp))
          => ret = "SL"

\* a short position whose TP and SL conditions hold on the same quote
C11_Witness ==
    /\ call.fn = "ExitReason" /\ call.side = "short"
    /\ RefHitTp /\ RefHitSl /\ ret = "SL"

\* C12: the exit evaluation of live3.py is the reference: long hit_tp iff
\* ask >= tp (1 - tol), hit_sl iff bid <= sl (1 + tol); short hit_tp iff
\* bid <= tp (1 + tol), hit_sl iff ask >= sl (1 - tol); an exit is triggered iff
\* one of them holds.
C12_ExitEvalIsReference ==
    call.fn = "ExitReason" =>
        /\ ret = "SL" <=> RefHitSl
        /\ ret = "TP" <=> (RefHitTp /\ ~RefHitSl)
        /\ ret = None <=> (~RefHitTp /\ ~RefHitSl)

\* a long position whose ask sits exactly on the TP tolerance boundary
C12_Witness ==
    /\ call.fn = "ExitReason" /\ call.side = "long"
    /\ call.ask = RMul(call.tp, RSub(One, Rat(5, 10000)))
    /\ ret = "TP"

\* C13: at most one position lifecycle is open: a first-stage entry order is
\* placed only while in_pos is false, a position that stays open keeps its side,
\* and an order that rests while a position is open either adds on the
\* position's side or is the reduce-only exit order.
C13_OnePositionLifecycle ==
    [][/\ (~cyc.entry /\ cyc'.entry) => ~in_pos
       /\ (in_pos /\ in_pos') => pos_side' = pos_side
       /\ (engine = "live3" /\ in_pos) =>
              \A o \in exOpen' \ exOpen : o.reduce \/ o.side = StageSide]_vars

\* a cycle of live3 that starts with an open position and a trigger, and goes on
\* to a staging order on the position's side without an entry order
C13_Witness ==
    /\ engine = "live3" /\ pc = "stageWait"
    /\ cyc.pos /\ in_pos /\ cyc.sig /\ ~cyc.entry
    /\ \E o \in exOpen : ~o.reduce /\ o.side = StageSide

\* C14: a first-stage entry order is issued in a cycle only if, in that cycle, a
\* signal trigger was true, the daily halt was not in force and the fee-edge
\* check was made and passed; in every engine that places entries.
C14_EntryNeedsSignalGovernorFeeEdge ==
    cyc.entry => (cyc.sig /\ ~cyc.halt /\ cyc.edge)

C16_HaltExactlyAtLimit ==
    /\ (call.fn = "HaltCond" /\ RGt(call.base, Zero)) =>
           (ret <=> RLe(RSub(call.cur, call.base),
                        RNeg(RMul(Rat(6, 100), call.base))))
    /\ call.fn = "PaperHaltCond" =>
           (ret <=> RLe(RSub(call.cur, call.base),
                        RNeg(RMul(Rat(3, 100), call.base))))

\* live2's test called on a drop of exactly 6 %, and halting
C16_Witness ==
    /\ call.fn = "HaltCond"
    /\ call.base = Rat(1000, 1) /\ call.cur = Rat(940, 1)
    /\ ret = TRUE

\* C17: the first cycle after the UTC day changes replaces the day-start equity
\* by the current equity before its halt check, so a cycle that halts always
\* judges the equity against a baseline taken on its own day.
C17_HaltJudgedOnTodaysBaseline ==
    (engine \in {"live2", "paper"} /\ pc = "sleep" /\ cyc.halt) => baseDay = today

\* C18: every staging order targets the first ladder step whose target notional
\* (equity times the step fraction) exceeds the current notional: while a
\* staging order of step 2 (0.80) is out, step 1 (0.75) has been reached.
C18_StagingTargetsFirstUnreachedStep ==
    (engine = "live3" /\ pc = "stageWait") =>
        \A j \in 1..(stage - 1) : ~RGt(StageTarget(j), cur_notional)

\* C19: no staging order is issued in a cycle where the current notional of the
\* position is at or above equity times the final ladder fraction (0.80).
C19_NoStagingAtCeiling ==
    (engine = "live3" /\ pc = "stageWait") =>
        RLt(cur_notional, RMul(equity, Rat(80, 100)))

\* a cycle that reached its exit section with a position at or above the
\* ceiling (a quantity the exchange agrees with), and placed no staging order
C19_Witness ==
    /\ engine = "live3" /\ pc = "exitReread" /\ in_pos /\ ~cyc.staged
    /\ RAbs(exPos) = amount
    /\ RGe(RMul(amount, IF pos_side = "long" THEN bid ELSE ask),
           RMul(equity, Rat(80, 100)))

\* C20: a post-only buy rejected as taker is resubmitted exactly one tick below
\* the rejected price, at most 3 times (at most 4 submissions); after that, or
\* after a rejection of another kind, nothing more is submitted for the order
\* and the failure leaves the function as an error, not as an order handle.
C20_RetryOneTickLowerThenFail ==
    probe.ver # "none" =>
        /\ probe.subs <= 4
        /\ probe.rej # NoPx => probe.px = RSub(probe.rej, price_step)
        /\ probe.out \in {"trying", "placed", "returned", "raised"}

\* C21: every buy order the chase loop submits has a price no higher than the
\* best bid read in the same pass, and a replacement rejected as taker is
\* resubmitted exactly one tick lower.
C21_ChaseAtOrBelowBidNudgeOneTick ==
    (probe.ver = "v4" /\ probe.out \in {"placed", "returned"}) =>
        /\ \A k \in 1..Len(probe.chase) : RLe(probe.chase[k].px, probe.bid)
        /\ Len(probe.chase) = 2 =>
               probe.chase[2].px = RSub(probe.chase[1].px, price_step)

\* C22: wait_fill_or_cancel reports filled only if a status poll returned
\* closed or filled; it reports not filled, without a cancel, as soon as a poll
\* returns canceled, rejected or expired; when the time is up without a terminal
\* status it issues exactly one cancel and reports not filled; a failed status
\* poll is ignored and the polling goes on.
C22_WaitFillOrCancel ==
    /\ [](call.fn = "wait_fill_or_cancel" =>
             /\ call.cancels <= 1
             /\ call.last \in {"canceled", "cancelled", "rejected", "expired",
                               "Expired", "closed", "CLOSED", "filled"} => call.done
             /\ call.last = "error" => ~call.done \/ call.how # "status"
             /\ call.done =>
                   /\ ret = "True" <=> call.last \in {"closed", "CLOSED", "filled"}
                   /\ ret \in {"True", "False"}
                   /\ call.last \in {"canceled", "cancelled", "rejected", "expired",
                                     "Expired", "closed", "CLOSED", "filled"}
                         => call.cancels = 0
                   /\ call.how # "status" =>
                         (call.cancels = 1 /\ ret = "False"
                          /\ call.t >= call.stale_sec))
    /\ [][(call'.fn = "wait_fill_or_cancel" /\ call'.last = "error"
           /\ call'.polls # call.polls) => ~call'.done]_vars

\* a call that polled an error and an open status, ran out of time, cancelled
\* once and reported not filled
C22_Witness ==
    /\ call.fn = "wait_fill_or_cancel" /\ call.done /\ call.how = "stale"
    /\ call.polls >= 2 /\ call.last = "error"
    /\ call.cancels = 1 /\ ret = "False"

\* C23: every nested wait (the entry and the staging fill wait of live3,
\* wait_fill_or_cancel, the chase loop) ends after a bounded number of polls as
\* the time advances, also when no fill or terminal status is ever reported and
\* when every query in it fails.
C23_WaitsTerminate ==
    /\ [](call.fn = "wait_fill_or_cancel" => call.polls <= call.stale_sec)
    /\ [](call.fn = "fill_wait" => call.polls <= call.limit)
    /\ [](probe.ver = "v4" => probe.polls <= probe.budget)
    /\ Waiting ~> (call.fn = "wait_fill_or_cancel" /\ call.done)
    /\ FillWaiting ~> (call.fn = "fill_wait" /\ call.done)
    /\ (probe.ver = "v4" /\ probe.out = "placed") ~> (probe.out = "returned")

\* an entry wait that saw no trade in any of its 25 polls and ended on time
C23_Witness ==
    /\ call.fn = "fill_wait" /\ call.limit = ENTRY_WAIT_SEC
    /\ call.done /\ call.how = "timeout" /\ call.polls = ENTRY_WAIT_SEC

\* the cycle of live2 handed an entry order to the exchange, which refused it
\* with InvalidOrder or InsufficientFunds
RefusedEntry ==
    /\ engine = "live2"
    /\ \E i \in 1..Len(cyc.sent) : cyc.sent[i].side = "buy" /\ cyc.sent[i].res = "refused"

\* C24: when the placement of an entry order fails with InvalidOrder or
\* InsufficientFunds, the order is not retried, no other order is submitted in
\* that cycle, the engine stays flat, and the next poll cycle starts normally.
C24_RefusedEntrySkipsCycle ==
    /\ [](RefusedEntry => /\ Len(cyc.sent) = 1
                          /\ ~in_pos /\ ~cyc.entry
                          /\ pc = "sleep" /\ ~cyc.failed)
    /\ [][RefusedEntry => (pc' = "start" /\ ~in_pos' /\ cyc' = IdleCyc)]_vars

\* a maker entry that the exchange refused, in a cycle that is over
C24_Witness ==
    /\ RefusedEntry /\ pc = "sleep"
    /\ cyc.sent[1].type = "limit"

\* the orders of the cycle of live2, and what is said of them below
UnfilledMaker(o, side) == o.type = "limit" /\ o.side = side /\ o.res # "filled"
MarketOrder(o, side) == o.type = "market" /\ o.side = side

\* C25: a maker entry that is rejected or goes stale is never followed by a
\* market entry order in that cycle and leaves the engine flat; a maker exit that
\* fails to be placed or is not filled is always followed by a market exit order
\* for the position quantity before the position is closed.
C25_MarketFallbackForExitsOnly ==
    /\ engine = "live2" =>
           \A i \in 1..Len(cyc.sent) :
               /\ UnfilledMaker(cyc.sent[i], "buy") =>
                      /\ ~in_pos
                      /\ \A j \in 1..Len(cyc.sent) : ~MarketOrder(cyc.sent[j], "buy")
               /\ (UnfilledMaker(cyc.sent[i], "sell") /\ ~in_pos) =>
                      /\ i < Len(cyc.sent)
                      /\ MarketOrder(cyc.sent[i + 1], "sell")
    /\ engine = "live3" =>
           /\ mkt # "none" => in_pos
           /\ (pc = "entryCancel" /\ filled = Zero) => ~in_pos
           /\ (exitRec.reason # None /\ ~in_pos /\ ~exitRec.filled) => exitRec.mkt # "none"

\* C26: a failure to write the trade record to the ledger never blocks the
\* position-state transition: after an exit whose ledger write fails the
\* position is still reset to flat, and the same exit is not processed again in
\* the next cycle.
C26_LedgerFailureKeepsReset ==
    /\ [](cyc.ledger = "failed" => ~in_pos)
    /\ [][(cyc.ledger = "failed" /\ pc = "sleep") => ~in_pos']_vars

\* r is a whole number of steps
MultipleOf(r, step) == RDiv(r, step)[2] = 1

\* C27: rounding floors to the exchange step: for every positive x and step
\* s = 10^(-precision), round_price(x) and round_amt(x) return the greatest
\* multiple of s that is <= x: the result is <= x, is a multiple of s, and x minus
\* the result is less than s.
C27_RoundingFloorsToStep ==
    call.fn \in {"FloorStep", "step_floor"} =>
        /\ RLe(ret, call.x)
        /\ MultipleOf(ret, call.step)
        /\ RLt(RSub(call.x, ret), call.step)

\* C28: for every positive price and every requested amount, the result of
\* safe_round_amount is at least the minimum amount when one is defined, and
\* price times the result is at least the minimum cost when one is defined.
C28_SafeAmountMeetsMinimums ==
    call.fn = "safe_round_amount" =>
        /\ call.min_amt # Zero => RGe(ret, call.min_amt)
        /\ call.min_cost # Zero => RGe(RMul(call.ref, ret), call.min_cost)

\* C29: for every order sized from a target notional, the submitted quantity
\* times the reference price used for sizing never exceeds the target notional,
\* for all values of the minimum amount and the minimum cost.
C29_SizeWithinTargetNotional ==
    call.fn \in {"SizedAmt", "safe_round_amount"} =>
        RLe(RMul(ret, call.ref), call.quote)

\* C30: no order is ever submitted with a price <= 0: when rounding a price
\* yields a result <= 0, the action fails or is skipped instead of submitting
\* (entry, staging and exit orders of live3, and probe orders).
C30_NoOrderAtNonPositivePrice ==
    /\ (call.fn = "maker_limit" /\ call.submitted) => RGt(ret, Zero)
    /\ \A o \in exOpen : RGt(o.px, Zero)
    /\ probe.out \in {"placed", "returned"} => RGt(probe.last_px, Zero)

\* C31: no entry or staging order is submitted with a quantity <= 0 or below the
\* exchange minimum amount: the staged engine submits only a positive amount that
\* is at least the minimum, and the entry of live2 that gets past the
\* minimum-amount check has a positive quantity that is at least the minimum.
C31_NoOrderBelowMinimum ==
    /\ (call.fn = "SizedAmt" /\ RGt(ret, Zero)) => RGe(ret, call.min_amt)
    /\ (call.fn = "entry_qty" /\ call.submitted) =>
           (RGt(ret, Zero) /\ RGe(ret, call.min_amt))
    /\ \A o \in exOpen : RGt(o.qty, Zero)

\* C32: the position becomes open only after a fill of positive quantity of the
\* engine's own entry order has been observed: the entry wait of the staged engine
\* takes a positive quantity for filled (and so opens the position) only when the
\* trades it read hold a trade of the entry order.
C32_OpenOnlyAfterOwnEntryFill ==
    (call.fn = "entry_fills" /\ RGt(ret, Zero)) =>
        \E i \in 1..Len(call.trades) :
            /\ call.trades[i].from = "entry"
            /\ call.trades[i].side = call.side
            /\ RGt(call.trades[i].a, Zero)

\* the fee rate of an order by its role: a post-only limit order is a maker
\* order, a market order a taker order
RoleRate(o) == IF o.type = "limit" THEN L2_MAKER_FEE_RATE ELSE TAKER_FEE_RATE

\* C33: the fee estimate of the fee-edge check takes the maker rate for the entry
\* leg exactly when the entry is placed as a maker order and for the exit leg
\* exactly when the exit is placed as a maker order, and the taker rate
\* otherwise: the rate assumed for a leg is the rate of the role of every entry
\* order placed and of the order that sells the position, a stop-loss exit
\* included.
C33_FeeEstimateMatchesOrderRoles ==
    engine = "live2" =>
        \A i \in 1..Len(cyc.sent) :
            /\ cyc.sent[i].side = "buy" => entry_fee_rate = RoleRate(cyc.sent[i])
            /\ (cyc.sent[i].side = "sell" /\ cyc.sent[i].res = "filled") =>
                   exit_fee_rate = RoleRate(cyc.sent[i])

\* C34: during one exit the quantity of exit orders that has executed or can
\* still execute (the resting maker reduce-only order plus the market order) never
\* exceeds the position quantity: when the market exit has been sent, no maker
\* exit is resting and the exit orders have not executed for more than the
\* position's amount.
C34_ExitOrdersWithinPosition ==
    (engine = "live3" /\ in_pos /\ pc = "exitSettle") =>
        /\ RLe(exitQty, amount)
        /\ \A o \in exOpen : o.reduce => RLe(RAdd(exitQty, o.qty), amount)

\* C35: whenever the engine is flat after an entry attempt, the quantity of that
\* entry order that executed at the exchange is zero, also when the fill arrives
\* between the last poll of the wait and the cancel.
C35_FlatAfterEntryMeansNoFill ==
    (engine = "live3" /\ pc = "sleep" /\ cyc.entry /\ ~in_pos) => cyc.got = Zero

\* C36: at every point of the chase loop at most one order placed by
\* place_or_adjust_buy is resting at the exchange, also when a cancel call fails.
C36_ChaseOneRestingOrder ==
    probe.ver = "v4" => Cardinality(probe.rest) <= 1

\* C37: the order id returned by place_or_adjust_buy is the id of the most
\* recently accepted order, and the chase loop has not canceled that order, for
\* every sequence of cancel and replace outcomes.
C37_ReturnedOrderIsLive ==
    (probe.ver = "v4" /\ probe.out = "returned") =>
        /\ probe.oid = probe.nextId - 1
        /\ probe.oid \in probe.rest

\* C38: in the staged engine equity changes only when a position is closed, by
\* gross P&L minus the maker fee rate times the sum of entry and exit notional,
\* and once per position lifecycle: every step that updates equity also resets
\* the position to flat before the next cycle.
C38_EquityOncePerLifecycle ==
    [][(engine = "live3" /\ equity' # equity) =>
           /\ in_pos /\ pc = "exitSettle"
           /\ \E q \in Quotes : equity' = Equity(q)
           /\ ~in_pos' /\ amount' = Zero]_vars


---------------------------------------------------------------------------
(* The loss streak of the paper trader *)

\* C39: in the paper engine consec_losses never exceeds max_consec_losses; a
\* stop-loss exit adds one to the count left by the day check; no position is
\* opened while the count, after the day check, stands at max_consec_losses;
\* and the count goes down only in a cycle that sees a new UTC day or by a
\* take-profit exit, which leaves it at 0.
C39_LossStreakHalt ==
    [][engine = "paper" =>
           /\ consec_losses <= max_consec_losses
           /\ consec_losses' <= max_consec_losses
           /\ (in_pos /\ ~in_pos' /\ exitRec'.reason = "SL") =>
                  consec_losses' = (IF today # last_day THEN 0 ELSE consec_losses) + 1
           /\ (~in_pos /\ in_pos') =>
                  (today # last_day \/ consec_losses < max_consec_losses)
           /\ consec_losses' < consec_losses =>
                  \/ today # last_day
                  \/ in_pos /\ ~in_pos' /\ exitRec'.reason = "TP" /\ consec_losses' = 0]_vars

\* three stop-loss exits in a row were booked, and a later cycle of the same day
\* saw a long signal pass the filters with a positive ATR and opened nothing
C39_Witness ==
    /\ engine = "paper" /\ pc = "sleep"
    /\ consec_losses = max_consec_losses /\ nExits = max_consec_losses
    /\ today = last_day /\ ~in_pos
    /\ exitRec = NoExit /\ cyc.sig /\ ~cyc.entry /\ ~cyc.failed

====
